---- MODULE Spec2Model ----
(***************************************************************************)
(* Model of the TWS-API-Python session layer: the plain module             *)
(* ("A0 Connect Module.py", src/unnamed/part_000) and the Pro module       *)
(* (src/A0_Connect_Module_Pro.py).  One caller thread walks the menu and   *)
(* runs one operation at a time; every operation creates its own session   *)
(* object (TradingBot / TradingApp) whose API thread delivers the          *)
(* gateway's callbacks concurrently with the caller.  EClient (connect,    *)
(* disconnect, placeOrder, requests) is the external transport: each call  *)
(* either returns or raises, as the try/except blocks around it expect.    *)
(***************************************************************************)
EXTENDS Integers, Sequences, FiniteSets, TLC

\* ------------------------------------------------------------------ bounds
MaxSessions == 2
ClientIdSpan == 2
ReqIdSpan == 2
ScanLen == 2
MaxSafelyCalls == 3
MaxBars == 15
MaxStrayBars == 1
MaxAtrBars == 4
MaxPeriod == 3
MaxOpenOrders == 2
MaxScanBars == 2

\* ------------------------------------------------------- program constants
None == -1
UNSET_DOUBLE == -2
MinClientId == 1000
MinReqId == 10000
StockReqId == 1001
AccountReqId == 9001
ScanBaseReqId == 5000
AtrPeriod == 14
AtrMinBars == 14

Sess == 1..MaxSessions
ClientIds == MinClientId..(MinClientId + ClientIdSpan - 1)
ReqIds == MinReqId..(MinReqId + ReqIdSpan - 1)

\* values the gateway may announce in nextValidId
OrderIds == {1, 5}
\* operator inputs (prices in whole currency units; 0 asks for a market entry)
Actions == {"BUY", "SELL"}
Quantities == {10}
EntryPrices == {0, 50}
StopPrices == {45}
ProfitPrices == {60}
TrailValues == {2}

PlainOps == {"run_connection_test", "get_stock_info", "get_account_info",
             "check_open_orders", "scan_weekly_gainers_asx",
             "enhanced_order_placement"}
ProOps == {"menu_price", "scan_momentum_stocks", "place_smart_order",
           "menu_test"}
\* order-type menu answers; "5a"/"5b" are choice 5 with its sub-choice
PlainOrderTypes == {"1", "2", "3", "4", "5a", "5b", "6", "x"}
ProOrderTypes == {"1", "2", "3", "5a", "5b", "6", "x"}

\* ----------------------------------------------------------- order objects
\* Order(): the fields the builders touch, with the library's defaults
\* (a fresh order has no parent and is transmitted on receipt).
NewOrder ==
  [orderId |-> 0, action |-> "", totalQuantity |-> 0, orderType |-> "",
   lmtPrice |-> UNSET_DOUBLE, auxPrice |-> UNSET_DOUBLE,
   trailingPercent |-> UNSET_DOUBLE, tif |-> "", parentId |-> 0,
   transmit |-> TRUE]

Opposite(action) == IF action = "BUY" THEN "SELL" ELSE "BUY"

\* plain module: create_clean_order(action, quantity, order_type, limit_price=None)
create_clean_order(action, quantity, order_type, limit_price) ==
  LET o == [NewOrder EXCEPT !.action = action, !.totalQuantity = quantity,
                            !.orderType = order_type, !.tif = "DAY"]
  IN IF order_type = "LMT" /\ limit_price # None
       THEN [o EXCEPT !.lmtPrice = limit_price]
       ELSE o

create_stop_loss_order(action, quantity, stop_price) ==
  [NewOrder EXCEPT !.action = Opposite(action), !.totalQuantity = quantity,
                   !.orderType = "STP", !.auxPrice = stop_price, !.tif = "GTC"]

create_stop_limit_order(action, quantity, stop_price, limit_price) ==
  [NewOrder EXCEPT !.action = Opposite(action), !.totalQuantity = quantity,
                   !.orderType = "STP LMT", !.auxPrice = stop_price,
                   !.lmtPrice = limit_price, !.tif = "GTC"]

\* variant: the trailing stop is built like a bracket child, left untransmitted
create_trailing_stop_order_held(action, quantity, trail_amount, trail_percent) ==
  [NewOrder EXCEPT !.action = Opposite(action), !.totalQuantity = quantity,
                   !.orderType = "TRAIL", !.tif = "GTC",
                   !.auxPrice = IF trail_amount # None THEN trail_amount ELSE @,
                   !.trailingPercent = IF trail_percent # None THEN trail_percent ELSE @,
                   !.transmit = FALSE]

\* trail_amount / trail_percent: None when the keyword is not passed
create_trailing_stop_order(action, quantity, trail_amount, trail_percent) ==
  LET o == [NewOrder EXCEPT !.action = Opposite(action),
                            !.totalQuantity = quantity,
                            !.orderType = "TRAIL", !.tif = "GTC"]
  IN IF trail_amount # None THEN [o EXCEPT !.auxPrice = trail_amount]
     ELSE IF trail_percent # None THEN [o EXCEPT !.trailingPercent = trail_percent]
     ELSE o

\* plain module: returns (parent, take_profit, stop_loss)
create_bracket_order(parent_order_id, action, quantity, limit_price, stop_loss_price, take_profit_price) ==
  LET parent == [NewOrder EXCEPT !.orderId = parent_order_id, !.action = action,
                   !.totalQuantity = quantity, !.orderType = "LMT",
                   !.lmtPrice = limit_price, !.tif = "GTC", !.transmit = FALSE]
      take_profit == [NewOrder EXCEPT !.orderId = parent_order_id + 1,
                   !.parentId = parent_order_id, !.action = Opposite(action),
                   !.totalQuantity = quantity, !.orderType = "LMT",
                   !.lmtPrice = take_profit_price, !.tif = "GTC",
                   !.transmit = FALSE]
      stop_loss == [NewOrder EXCEPT !.orderId = parent_order_id + 2,
                   !.parentId = parent_order_id, !.action = Opposite(action),
                   !.totalQuantity = quantity, !.orderType = "STP",
                   !.auxPrice = stop_loss_price, !.tif = "GTC",
                   !.transmit = TRUE]
  IN << parent, take_profit, stop_loss >>

\* Pro module: MomentumTrader builders
create_market_order(action, quantity) ==
  [NewOrder EXCEPT !.action = action, !.totalQuantity = quantity,
                   !.orderType = "MKT", !.tif = "DAY"]

create_limit_order(action, quantity, limit_price) ==
  [NewOrder EXCEPT !.action = action, !.totalQuantity = quantity,
                   !.orderType = "LMT", !.lmtPrice = limit_price, !.tif = "DAY"]

create_stop_order(action, quantity, stop_price) ==
  [NewOrder EXCEPT !.action = action, !.totalQuantity = quantity,
                   !.orderType = "STP", !.auxPrice = stop_price, !.tif = "DAY"]

create_trailing_stop_percent(action, quantity, trail_percent) ==
  [NewOrder EXCEPT !.action = action, !.totalQuantity = quantity,
                   !.orderType = "TRAIL", !.trailingPercent = trail_percent,
                   !.tif = "DAY"]

create_trailing_stop_amount(action, quantity, trail_amount) ==
  [NewOrder EXCEPT !.action = action, !.totalQuantity = quantity,
                   !.orderType = "TRAIL", !.auxPrice = trail_amount,
                   !.tif = "DAY"]

\* MomentumTrader.create_bracket_order, first half: the entry order
ProBracketParent(action, quantity, entry_price) ==
  LET p == [NewOrder EXCEPT !.action = action, !.totalQuantity = quantity,
              !.orderType = IF entry_price > 0 THEN "LMT" ELSE "MKT",
              !.tif = "DAY", !.transmit = FALSE]
  IN IF entry_price > 0 THEN [p EXCEPT !.lmtPrice = entry_price] ELSE p

\* variant: the stop-loss child on the entry's side, as create_stop_order builds it
ProBracketStopSameSide(action, quantity, stop_price, next_id) ==
  [NewOrder EXCEPT !.action = action, !.totalQuantity = quantity,
                   !.orderType = "STP", !.auxPrice = stop_price,
                   !.parentId = next_id, !.tif = "DAY", !.transmit = FALSE]

\* ... the stop-loss child; next_id is self.app.nextOrderId as read at line 711
ProBracketStop(action, quantity, stop_price, next_id) ==
  [NewOrder EXCEPT !.action = Opposite(action), !.totalQuantity = quantity,
                   !.orderType = "STP", !.auxPrice = stop_price,
                   !.parentId = next_id, !.tif = "DAY", !.transmit = FALSE]

\* ... the take-profit child; next_id is self.app.nextOrderId as read at line 723
ProBracketProfit(action, quantity, profit_price, next_id) ==
  [NewOrder EXCEPT !.action = Opposite(action), !.totalQuantity = quantity,
                   !.orderType = "LMT", !.lmtPrice = profit_price,
                   !.parentId = next_id, !.tif = "DAY", !.transmit = TRUE]

\* ------------------------------------------------------------ data stores
\* tickPrice types: 1 is BID, 14 stands for the types without a branch of
\* their own; tickSize types: 5 is Last Size, 0 a type without a branch
PriceTickTypes == {1, 14}
SizeTickTypes == {5, 0}
Prices == {10}
\* every branch of tickPrice: BID, ASK, LAST, HIGH, LOW, CLOSE and, as 14,
\* the types without a branch; two prices, to tell a new tick from an old
AllPriceTickTypes == {1, 2, 4, 6, 7, 9, 14}
TickPrices == {10, 11}
\* the fields of a price snapshot
PriceFields == {"bid", "ask", "last", "high", "low", "close"}
\* the field a tick type is stored under ("": none of the six; the plain
\* module's get_tick_name spells them "Bid", "Ask", ...)
PriceField(tickType) ==
  CASE tickType = 1 -> "bid" [] tickType = 2 -> "ask" [] tickType = 4 -> "last"
    [] tickType = 6 -> "high" [] tickType = 7 -> "low" [] tickType = 9 -> "close"
    [] OTHER -> ""
Sizes == {100}
\* the symbols asked for and the callbacks' placeholder
Symbols == {"AAPL", "MSFT", "Unknown"}
\* the bar the gateway reports in the data operations
DataBar == [high |-> 12, low |-> 10, close |-> 11]

\* a number kept exact: sum / count
Ratio(n, d) == [num |-> n, den |-> d]
Zero == Ratio(0, 1)

\* dict entries; present = FALSE: the key is not in the dict
NoEntry == [present |-> FALSE, symbol |-> "", bid |-> None, ask |-> None, last |-> None, high |-> None, low |-> None, close |-> None, other |-> None, volume |-> None]
NoPrices == [present |-> FALSE, bid |-> None, ask |-> None, last |-> None, high |-> None, low |-> None, close |-> None]
NoSeries == [present |-> FALSE, data |-> << >>]
NoVolatility == [present |-> FALSE, atr |-> Zero]
NoResult == [present |-> FALSE, outcome |-> "", bid |-> 0, atr |-> Zero, change |-> Zero, terminated |-> FALSE]
NoSizing == [calc |-> "", account |-> 0, risk |-> 0, entry |-> 0, stop |-> 0]
NoRet == [outcome |-> "", value |-> Zero, period |-> 0]
NoPriceData == [at |-> 0, live |-> FALSE, bid |-> 0, ask |-> 0, last |-> 0, high |-> 0, low |-> 0, close |-> 0, spread |-> 0]
NoShown == [found |-> FALSE, orderId |-> None, status |-> ""]
NoConfirms == [confirm |-> "", final_confirm |-> ""]
NoTargets == [kind |-> "", action |-> "", current |-> 0, entry |-> 0, stop |-> 0, prices |-> << >>]

Abs(x) == IF x < 0 THEN -x ELSE x
Max(x, y) == IF x >= y THEN x ELSE y

RECURSIVE Sum(_)
Sum(seq) == IF seq = << >> THEN 0 ELSE Head(seq) + Sum(Tail(seq))

\* the list built by the loop "for i in range(1, len(bars))"
true_ranges(series) ==
  [i \in 1..(Len(series) - 1) |->
     Max(series[i + 1].high - series[i + 1].low,
         Max(Abs(series[i + 1].high - series[i].close),
             Abs(series[i + 1].low - series[i].close)))]

\* variant: the window is taken from the front of the list
calculate_atr_first_window(series, period) ==
  LET tr == true_ranges(series)
  IN IF Len(tr) >= period THEN Ratio(Sum(SubSeq(tr, 1, period)), period)
     ELSE IF tr # << >> THEN Ratio(Sum(tr), Len(tr))
     ELSE Zero

\* TradingBot.calculate_atr(bars, period=14)
calculate_atr(series, period) ==
  LET tr == true_ranges(series)
  IN IF Len(tr) >= period
       THEN Ratio(Sum(SubSeq(tr, Len(tr) - period + 1, Len(tr))), period)
     ELSE IF tr # << >> THEN Ratio(Sum(tr), Len(tr))
     ELSE Zero

\* ------------------------------------------------------------------- state
VARIABLES
  program,            \* "plain" (part_000) or "pro" (A0_Connect_Module_Pro.py)
  pc,                 \* position of the caller thread
  cur,                \* the session object of the running operation (0: none yet)
  sessOp,             \* the operation that created each session object
  inp,                \* the operator's answers for the running operation
  plan,               \* the orders built by the running operation
  todo,               \* the EClient calls the running operation still has to make
  sent,               \* the EClient calls it made: what was handed to the transport
  isConn,             \* EClient.isConnected() of each session
  connected,          \* self.connected (plain module)
  nextOrderId,        \* self.nextOrderId
  clientId,           \* the client id handed to connect
  apiThread,          \* the daemon thread running app.run was started
  active_connections, \* the module-level list
  connectCalls,       \* times EClient.connect was invoked on the session
  disconnectCalls,    \* times EClient.disconnect was invoked on the session
  safelyCalls,        \* times disconnect_safely was called on the session
  established,        \* connect_safely returned True for the session
  exitPath,           \* how the session's operation ended ("" while it runs)
  dpc,                \* position of the caller inside a data request
  dop,                \* the data operation that issues the request
  req,                \* the request id in use (None: nothing requested yet)
  market_data,        \* self.market_data: reqId -> dict
  latest_prices,      \* self.latest_prices: symbol -> dict (Pro module)
  historical_data,    \* self.historical_data: reqId -> list of bars
  volatility_data,    \* self.volatility_data: symbol -> {"atr": ...} (Pro module)
  cancelled,          \* cancelMktData(req) was called
  ended,              \* request ids whose historicalDataEnd was dispatched
  reEnded,            \* a historicalDataEnd came for an id that had ended already
  faults,             \* callbacks that raised, with the id they were called with
  result,             \* what the caller computed from the stores
  bars,               \* calculator input: a series of bars
  sizing,             \* calculator input: the position-size figures
  ret,                \* calculator outcome
  targets,            \* the R-multiple targets shown last, with their inputs
  account_values,     \* self.account_values, as the set of its entries
  positions,          \* self.positions, as the set of its entries
  reported,           \* the gateway's latest position event for each symbol
  open_orders,        \* self.open_orders: the order ids of its entries
  console,            \* what the error callback printed
  price_data,         \* the dict get_live_price is building, and how far it got
  order_statuses,     \* self.order_statuses, as the set of its entries (Pro module)
  shown,              \* the order status place_smart_order printed
  confirms,           \* the operator's answers to place_live_order's two questions
  asked               \* the symbols scan_momentum_stocks has asked a price for

vars == << program, pc, cur, sessOp, inp, plan, todo, sent, isConn, connected,
           nextOrderId, clientId, apiThread, active_connections, connectCalls,
           disconnectCalls, safelyCalls, established, exitPath, dpc, dop, req,
           market_data, latest_prices, historical_data, volatility_data,
           cancelled, ended, reEnded, faults, result, bars, sizing, ret,
           targets, account_values, positions, reported, open_orders, console,
           price_data, order_statuses, shown, confirms, asked >>

\* the stores the callbacks write and the caller of a data request reads
storeVars == << market_data, latest_prices, historical_data, volatility_data >>
dataVars == << dpc, dop, req, storeVars, cancelled, ended, reEnded, faults, result >>
calcVars == << bars, sizing, ret, targets >>
flowVars == << price_data, order_statuses, shown, confirms, asked >>
bookVars == << account_values, positions, reported, open_orders, console, flowVars >>

sessVars == << isConn, connected, nextOrderId, clientId, apiThread,
               active_connections, connectCalls, disconnectCalls, safelyCalls,
               established >>

NoInput == [action |-> "", quantity |-> 0, otype |-> "", entry |-> None,
            stop |-> None, profit |-> None, trail |-> None]

\* the request ids the gateway's events may carry: the id of the data
\* request and one more
EventIds ==
  IF program = "pro" THEN {MinReqId, MinReqId + 1} ELSE {StockReqId, ScanBaseReqId}

\* the ids of a scan: reqId = 5000 + i for the i-th symbol
ScanIds == { ScanBaseReqId + i : i \in 0..(ScanLen - 1) }
\* the ids historical_data may come to hold a list for
SeriesIds == IF program = "pro" THEN EventIds ELSE EventIds \cup ScanIds

Init ==
  /\ program \in {"plain", "pro"}
  /\ pc = "menu"
  /\ cur = 0
  /\ sessOp = [s \in Sess |-> ""]
  /\ inp = NoInput
  /\ plan = << >>
  /\ todo = << >>
  /\ sent = << >>
  /\ isConn = [s \in Sess |-> FALSE]
  /\ connected = [s \in Sess |-> FALSE]
  /\ nextOrderId = [s \in Sess |-> None]
  /\ clientId = [s \in Sess |-> None]
  /\ apiThread = [s \in Sess |-> FALSE]
  /\ active_connections = << >>
  /\ connectCalls = [s \in Sess |-> 0]
  /\ disconnectCalls = [s \in Sess |-> 0]
  /\ safelyCalls = [s \in Sess |-> 0]
  /\ established = [s \in Sess |-> FALSE]
  /\ exitPath = [s \in Sess |-> ""]
  /\ dpc = "start"
  /\ dop = ""
  /\ req = None
  /\ market_data = [id \in EventIds |-> NoEntry]
  /\ latest_prices = [sym \in Symbols |-> NoPrices]
  /\ historical_data = [id \in SeriesIds |-> NoSeries]
  /\ volatility_data = [sym \in Symbols |-> NoVolatility]
  /\ cancelled = FALSE
  /\ ended = {}
  /\ reEnded = FALSE
  /\ faults = {}
  /\ result = NoResult
  /\ bars = << >>
  /\ sizing = NoSizing
  /\ ret = NoRet
  /\ targets = NoTargets
  /\ account_values = {}
  /\ positions = {}
  /\ reported = {}
  /\ open_orders = << >>
  /\ console = {}
  /\ price_data = NoPriceData
  /\ order_statuses = {}
  /\ shown = NoShown
  /\ confirms = NoConfirms
  /\ asked = << >>

InList(s) == \E i \in 1..Len(active_connections) : active_connections[i] = s

\* list.remove(x): drops the first occurrence
RECURSIVE RemoveFirst(_, _)
RemoveFirst(seq, x) ==
  IF seq = << >> THEN << >>
  ELSE IF Head(seq) = x THEN Tail(seq)
  ELSE << Head(seq) >> \o RemoveFirst(Tail(seq), x)

\* get_unique_client_id(): random.randint(1000, 9999)
get_unique_client_id == ClientIds

\* ------------------------------------------------------ session operations
\* variant: the session is registered before the connect attempt
connect_safely_registers_first(s, cid, ok) ==
  /\ clientId' = [clientId EXCEPT ![s] = cid]
  /\ connectCalls' = [connectCalls EXCEPT ![s] = @ + 1]
  /\ active_connections' = Append(active_connections, s)
  /\ IF ok
       THEN /\ isConn' = [isConn EXCEPT ![s] = TRUE]
            /\ connected' = [connected EXCEPT ![s] = (program = "plain")]
            /\ established' = [established EXCEPT ![s] = TRUE]
       ELSE UNCHANGED << isConn, connected, established >>

\* connect_safely(host, port, clientId); ok: EClient.connect returned, else
\* it raised and the except branch returns False.
connect_safely(s, cid, ok) ==
  /\ clientId' = [clientId EXCEPT ![s] = cid]
  /\ connectCalls' = [connectCalls EXCEPT ![s] = @ + 1]
  /\ IF ok
       THEN /\ isConn' = [isConn EXCEPT ![s] = TRUE]
            /\ connected' = [connected EXCEPT ![s] = (program = "plain")]
            /\ active_connections' = Append(active_connections, s)
            /\ established' = [established EXCEPT ![s] = TRUE]
       ELSE UNCHANGED << isConn, connected, active_connections, established >>

\* Outcomes of the try body's transport teardown when isConnected():
\*   "ok"      disconnect() and the sleep return
\*   "raise_before"  disconnect() raises with the transport still up
\*   "raise_after"   the transport is down and the rest of the try body is cut
\*                   short (disconnect() or the sleep raises)
DisconnectOutcomes == {"ok", "raise_before", "raise_after"}

\* disconnect_safely(): the whole try/except block
disconnect_safely(s, outcome) ==
  /\ safelyCalls' = [safelyCalls EXCEPT ![s] = @ + 1]
  /\ IF isConn[s]
      THEN /\ disconnectCalls' = [disconnectCalls EXCEPT ![s] = @ + 1]
           /\ isConn' = [isConn EXCEPT ![s] = (outcome = "raise_before")]
           /\ IF outcome = "ok"
                THEN /\ connected' = [connected EXCEPT ![s] = FALSE]
                     /\ active_connections' = RemoveFirst(active_connections, s)
                ELSE UNCHANGED << connected, active_connections >>
      ELSE /\ connected' = [connected EXCEPT ![s] = FALSE]
           /\ active_connections' = RemoveFirst(active_connections, s)
           /\ UNCHANGED << disconnectCalls, isConn >>

\* ------------------------------------------------ the operations' requests
\* One EClient call of an operation.  rel: the id argument is written
\* app.nextOrderId + id in the source and is read when the call is made.
\* guarded: the call sits in a per-symbol try/except that continues the loop.
Call(kind, id) ==
  [kind |-> kind, id |-> id, rel |-> FALSE, order |-> NewOrder, guarded |-> FALSE]
Place(id, rel, order) ==
  [kind |-> "placeOrder", id |-> id, rel |-> rel, order |-> order,
   guarded |-> FALSE]

\* get_stock_info: the calls under "if app.nextOrderId is not None"
StockInfoBody ==
  << Call("reqMarketDataType", 0), Call("reqMktData", StockReqId),
     Call("reqContractDetails", StockReqId + 100),
     Call("cancelMktData", StockReqId) >>

\* get_account_info
AccountInfoBody ==
  << Call("reqAccountSummary", AccountReqId), Call("reqPositions", 0),
     Call("cancelAccountSummary", AccountReqId), Call("cancelPositions", 0) >>

\* check_open_orders
OpenOrdersBody == << Call("reqAllOpenOrders", 0) >>

\* scan_weekly_gainers_asx: reqId = 5000 + i for the i-th symbol
PlainScanBody ==
  [i \in 1..ScanLen |->
     [Call("reqHistoricalData", ScanBaseReqId + (i - 1)) EXCEPT !.guarded = TRUE]]

\* MomentumTrader.get_live_price with req_id as drawn by random.randint
get_live_price(req_id) ==
  << Call("reqMarketDataType", 0), Call("reqMktData", req_id),
     Call("reqHistoricalData", req_id), Call("cancelMktData", req_id) >>

RECURSIVE Flatten(_)
Flatten(seqs) ==
  IF seqs = << >> THEN << >> ELSE Head(seqs) \o Flatten(Tail(seqs))

\* scan_momentum_stocks: one get_live_price per symbol
ProScanBody(req_ids) == Flatten([i \in 1..Len(req_ids) |-> get_live_price(req_ids[i])])

\* the plain module's one-order operations outside the operations above
SimpleOrderOps == {"paper_trade_order", "place_live_order"}

HasTryFinally(o) ==
  o \in PlainOps \cup SimpleOrderOps \/ o \in {"scan_momentum_stocks", "place_smart_order"}
OrderOps == {"enhanced_order_placement", "place_smart_order"}

op == IF cur = 0 THEN "" ELSE sessOp[cur]

\* --------------------------------------------------------- caller thread
\* The questions an order type asks: the others stay unanswered (None).
AsksEntry(o, t) == t \in {"2", "6"} \/ (o = "enhanced_order_placement" /\ t = "4")
AsksStop(o, t) == t \in {"3", "6"} \/ (o = "enhanced_order_placement" /\ t = "4")
AsksProfit(o, t) == t = "6"
AsksTrail(o, t) == t \in {"5a", "5b"}

OrderInputs(o) ==
  IF o \notin OrderOps THEN {NoInput}
  ELSE UNION { { [action |-> a, quantity |-> q, otype |-> t, entry |-> e,
                  stop |-> st, profit |-> pr, trail |-> tr] :
                   a \in Actions, q \in Quantities,
                   e \in (IF AsksEntry(o, t) THEN EntryPrices ELSE {None}),
                   st \in (IF AsksStop(o, t) THEN StopPrices ELSE {None}),
                   pr \in (IF AsksProfit(o, t) THEN ProfitPrices ELSE {None}),
                   tr \in (IF AsksTrail(o, t) THEN TrailValues ELSE {None}) } :
               t \in (IF o = "place_smart_order" THEN ProOrderTypes
                                                 ELSE PlainOrderTypes) }

\* The operation returned (target: the menu, or the __main__ handler): its
\* locals are gone.
Leave(target) ==
  /\ pc' = target
  /\ inp' = NoInput
  /\ plan' = << >>
  /\ todo' = << >>
  /\ sent' = << >>

\* app = TradingBot(): the name is bound to a new object.  The objects of
\* the operations before are garbage unless active_connections still holds
\* them, and of those only isConnected()/disconnect() and the client id the
\* gateway knows them by matter from here on: the other fields leave the state.
Kept(s) == s <= cur /\ InList(s)
Dropped(f, init) == [s \in Sess |-> IF s <= cur THEN init ELSE f[s]]
DroppedUnlessKept(f, init) ==
  [s \in Sess |-> IF s <= cur /\ ~Kept(s) THEN init ELSE f[s]]

\* app = TradingBot() of operation o, with the operator's answers
NewSession(o, answers) ==
  /\ cur' = cur + 1
  /\ sessOp' = [Dropped(sessOp, "") EXCEPT ![cur + 1] = o]
  /\ inp' = answers
  /\ plan' = << >>
  /\ todo' = << >>
  /\ sent' = << >>
  /\ pc' = "connect"
  /\ nextOrderId' = Dropped(nextOrderId, None)
  /\ apiThread' = Dropped(apiThread, FALSE)
  /\ connectCalls' = Dropped(connectCalls, 0)
  /\ disconnectCalls' = Dropped(disconnectCalls, 0)
  /\ safelyCalls' = Dropped(safelyCalls, 0)
  /\ exitPath' = Dropped(exitPath, "")
  /\ isConn' = DroppedUnlessKept(isConn, FALSE)
  /\ connected' = DroppedUnlessKept(connected, FALSE)
  /\ clientId' = DroppedUnlessKept(clientId, None)
  /\ established' = DroppedUnlessKept(established, FALSE)
  /\ order_statuses' = {}
  /\ shown' = NoShown
  /\ UNCHANGED << dataVars, calcVars, program, account_values, positions, reported,
                  open_orders, console, price_data, asked, active_connections >>

\* The menu starts an operation: a new session object and the operator's answers.
StartOperation(o, answers) ==
  /\ pc = "menu"
  /\ cur < MaxSessions
  /\ o \in (IF program = "plain" THEN PlainOps ELSE ProOps)
  /\ answers \in OrderInputs(o)
  /\ NewSession(o, answers)
  /\ UNCHANGED confirms

\* client_id = get_unique_client_id(); app.connect_safely("127.0.0.1", port, client_id)
\* plain: "if not app.connect_safely(...): return" inside try, so finally runs;
\* pro: MomentumTrader.connect returns False and the operation returns.
Connect(cid, ok) ==
  /\ pc = "connect"
  /\ connect_safely(cur, cid, ok)
  /\ IF ok
       THEN /\ pc' = "thread"
            /\ UNCHANGED << exitPath, inp, plan, todo, sent >>
       ELSE /\ exitPath' = [exitPath EXCEPT ![cur] = "connect_failed"]
            /\ IF program = "plain"
                 THEN pc' = "finally" /\ UNCHANGED << inp, plan, todo, sent >>
                 ELSE Leave("menu")
  /\ UNCHANGED << dataVars, calcVars, program, bookVars, cur, sessOp, nextOrderId, apiThread, disconnectCalls,
                  safelyCalls >>

\* api_thread = threading.Thread(target=app.run, daemon=True); api_thread.start()
StartApiThread ==
  /\ pc = "thread"
  /\ apiThread' = [apiThread EXCEPT ![cur] = TRUE]
  /\ pc' = "handshake"
  /\ UNCHANGED << dataVars, calcVars, program, bookVars, cur, sessOp, inp, plan, todo, sent, isConn, connected,
                  nextOrderId, clientId, active_connections, connectCalls,
                  disconnectCalls, safelyCalls, established, exitPath >>

\* variant: the handshake test is left out
NextOrderIdUnchecked(s) == TRUE

\* "app.nextOrderId is not None"
HasNextOrderId(s) == nextOrderId[s] # None

\* where an operation goes once the handshake succeeded
AfterHandshake(o) ==
  CASE o \in {"run_connection_test", "menu_test"} -> "finally"
    [] o \in {"enhanced_order_placement"} \cup SimpleOrderOps -> "compose"
    [] OTHER -> "body"

\* after time.sleep(2): the test of app.nextOrderId.  run_connection_test has
\* no such test.  plain: the else branch or the early return, then finally;
\* pro: MomentumTrader.connect returns False and the operation returns.
CheckHandshake ==
  /\ pc = "handshake"
  /\ IF op # "run_connection_test" /\ ~HasNextOrderId(cur)
       THEN /\ exitPath' = [exitPath EXCEPT ![cur] = "no_handshake"]
            /\ IF program = "plain"
                 THEN pc' = "finally" /\ UNCHANGED << inp, plan, todo, sent >>
                 ELSE Leave("menu")
       ELSE /\ pc' = AfterHandshake(op)
            /\ exitPath' = [exitPath EXCEPT ![cur] =
                               IF AfterHandshake(op) = "finally" THEN "normal" ELSE @]
            /\ UNCHANGED << inp, plan, todo, sent >>
  /\ UNCHANGED << dataVars, calcVars, program, bookVars, cur, sessOp, sessVars >>

\* where an exception raised in the operation's body lands: the operation's
\* own finally (after its except, if any), else the __main__ handler
RaiseTarget(o) == IF HasTryFinally(o) THEN "finally" ELSE "main_finally"

\* The data operations' requests, once the handshake test passed.
Body(req_ids) ==
  /\ pc = "body"
  /\ todo' = CASE op = "get_stock_info" -> StockInfoBody
               [] op = "get_account_info" -> AccountInfoBody
               [] op = "check_open_orders" -> OpenOrdersBody
               [] op = "scan_weekly_gainers_asx" -> PlainScanBody
               [] op = "scan_momentum_stocks" -> ProScanBody(req_ids)
               [] OTHER -> get_live_price(req_ids[1])
  /\ pc' = "fetch"
  /\ UNCHANGED << dataVars, calcVars, program, bookVars, cur, sessOp, inp, plan, sent, sessVars, exitPath >>

\* variant: every call sits in a try/except that carries on
AbandonNothing(call, rest) == rest

\* the calls left to make after `call` raised: the exception leaves the
\* sequence, unless the per-symbol try/except swallows it
Abandon(call, rest) == IF call.guarded THEN rest ELSE << >>

\* where the caller goes when its calls are all made
AfterCalls(o, at) ==
  IF at = "fetch" /\ o = "place_smart_order" THEN "compose"
  ELSE IF at = "place" /\ o = "place_smart_order" /\ inp.otype # "6" THEN "report"
  ELSE "finally"

\* The next EClient call of the running operation; ok: it returns, else it raises.
Send(ok) ==
  /\ pc \in {"fetch", "place"}
  /\ todo # << >>
  /\ LET call == Head(todo)
         id == IF call.rel THEN nextOrderId[cur] + call.id ELSE call.id
         left == IF ok THEN Tail(todo) ELSE Abandon(call, Tail(todo))
         raised == ~ok /\ ~call.guarded
     IN /\ sent' = Append(sent, [kind |-> call.kind, id |-> id,
                                 order |-> call.order, ok |-> ok])
        /\ todo' = left
        /\ IF left # << >>
             THEN UNCHANGED << pc, exitPath >>
             ELSE IF raised
               THEN /\ pc' = RaiseTarget(op)
                    /\ exitPath' = [exitPath EXCEPT ![cur] = "exception"]
               ELSE /\ pc' = AfterCalls(op, pc)
                    /\ exitPath' = [exitPath EXCEPT ![cur] =
                          IF AfterCalls(op, pc) = "finally" THEN "normal" ELSE @]
  /\ UNCHANGED << dataVars, calcVars, program, bookVars, cur, sessOp, inp, plan, sessVars >>

\* enhanced_order_placement: the order(s) of the chosen type and their
\* placeOrder calls.  "x" is the invalid selection (early return).
PlainPlan(i, next_id) ==
  CASE i.otype = "1" -> << create_clean_order(i.action, i.quantity, "MKT", None) >>
    [] i.otype = "2" -> << create_clean_order(i.action, i.quantity, "LMT", i.entry) >>
    [] i.otype = "3" -> << create_stop_loss_order(i.action, i.quantity, i.stop) >>
    [] i.otype = "4" -> << create_stop_limit_order(i.action, i.quantity, i.stop, i.entry) >>
    [] i.otype = "5a" -> << create_trailing_stop_order(i.action, i.quantity, i.trail, None) >>
    [] i.otype = "5b" -> << create_trailing_stop_order(i.action, i.quantity, None, i.trail) >>
    [] i.otype = "6" -> create_bracket_order(next_id, i.action, i.quantity, i.entry,
                                             i.stop, i.profit)
    [] OTHER -> << >>

\* single orders go out under app.nextOrderId as read at the call; the bracket
\* under the orderId fields create_bracket_order wrote
PlainPlacements(orders) ==
  IF Len(orders) = 1
    THEN << Place(0, TRUE, orders[1]) >>
    ELSE [k \in 1..Len(orders) |-> Place(orders[k].orderId, FALSE, orders[k])]

\* place_smart_order: the single order of the chosen type; menu answers
\* without a branch of their own fall to the market order
ProSingle(i) ==
  CASE i.otype = "2" -> create_limit_order(i.action, i.quantity, i.entry)
    [] i.otype = "3" -> create_stop_order(i.action, i.quantity, i.stop)
    [] i.otype = "5a" -> create_trailing_stop_percent(i.action, i.quantity, i.trail)
    [] i.otype = "5b" -> create_trailing_stop_amount(i.action, i.quantity, i.trail)
    [] OTHER -> create_market_order(i.action, i.quantity)

\* placeOrder(nextOrderId, ...), placeOrder(nextOrderId + 1, ...), ...
ProPlacements(orders) ==
  [k \in 1..Len(orders) |-> Place(k - 1, TRUE, orders[k])]

\* The order-building part of the two order operations;
\* raises: an operator answer does not parse (int()/float() raise ValueError).
Compose(raises) ==
  /\ pc = "compose"
  /\ IF raises
       THEN /\ pc' = RaiseTarget(op)
            /\ exitPath' = [exitPath EXCEPT ![cur] = "exception"]
            /\ UNCHANGED << plan, todo >>
       ELSE IF program = "plain"
         THEN LET orders == PlainPlan(inp, nextOrderId[cur])
              IN /\ plan' = orders
                 /\ todo' = PlainPlacements(orders)
                 /\ pc' = IF orders = << >> THEN "finally" ELSE "place"
                 /\ exitPath' = [exitPath EXCEPT ![cur] =
                                    IF orders = << >> THEN "early_return" ELSE @]
         ELSE IF inp.otype = "6"
           THEN /\ plan' = << ProBracketParent(inp.action, inp.quantity, inp.entry),
                              ProBracketStop(inp.action, inp.quantity, inp.stop,
                                             nextOrderId[cur]) >>
                /\ pc' = "compose2"
                /\ UNCHANGED << todo, exitPath >>
           ELSE /\ plan' = << ProSingle(inp) >>
                /\ todo' = ProPlacements(<< ProSingle(inp) >>)
                /\ pc' = "place"
                /\ UNCHANGED exitPath
  /\ UNCHANGED << dataVars, calcVars, program, bookVars, cur, sessOp, inp, sent, sessVars >>

\* MomentumTrader.create_bracket_order, second read of self.app.nextOrderId
Compose2 ==
  /\ pc = "compose2"
  /\ LET orders == Append(plan, ProBracketProfit(inp.action, inp.quantity,
                                                 inp.profit, nextOrderId[cur]))
     IN /\ plan' = orders
        /\ todo' = ProPlacements(orders)
  /\ pc' = "place"
  /\ UNCHANGED << dataVars, calcVars, program, bookVars, cur, sessOp, inp, sent, sessVars, exitPath >>

\* place_smart_order after the single order's placeOrder and the sleep: the
\* status printed is the entry of order_statuses under nextOrderId - 1, with
\* nextOrderId as it is now; nothing is printed when there is no such entry
ReportStatus ==
  /\ pc = "report"
  /\ LET key == nextOrderId[cur] - 1
         hit == { x \in order_statuses : x.orderId = key }
     IN shown' = IF hit = {} THEN NoShown
                 ELSE [found |-> TRUE, orderId |-> key,
                       status |-> (CHOOSE x \in hit : TRUE).status]
  /\ pc' = "finally"
  /\ exitPath' = [exitPath EXCEPT ![cur] = "normal"]
  /\ UNCHANGED << dataVars, calcVars, program, account_values, positions, reported,
                  open_orders, console, price_data, order_statuses, confirms, asked,
                  cur, sessOp, inp, plan, todo, sent, sessVars >>

\* finally: app.disconnect_safely() (pro: trader.disconnect()); an exception
\* that came through a pro try/finally goes on to the __main__ handler
Finally(outcome) ==
  /\ pc = "finally"
  /\ disconnect_safely(cur, outcome)
  /\ Leave(IF program = "pro" /\ exitPath[cur] = "exception"
             THEN "main_finally" ELSE "menu")
  /\ UNCHANGED << dataVars, calcVars, program, bookVars, cur, sessOp, nextOrderId, clientId, apiThread,
                  connectCalls, established, exitPath >>

\* cleanup_all_connections(): app.disconnect() for every connected app of the
\* list, each in its own try/except; the plain module then clears the list
cleanup_all_connections(outcome) ==
  /\ isConn' = [s \in Sess |-> IF InList(s) /\ isConn[s]
                                  THEN outcome[s] = "raise_before" ELSE isConn[s]]
  /\ disconnectCalls' = [s \in Sess |-> IF InList(s) /\ isConn[s]
                                           THEN disconnectCalls[s] + 1
                                           ELSE disconnectCalls[s]]
  /\ active_connections' = IF program = "plain" THEN << >> ELSE active_connections

\* choice "0": the menu loop ends
Quit ==
  /\ pc = "menu"
  /\ pc' = IF program = "pro" THEN "main_finally" ELSE "atexit"
  /\ UNCHANGED << dataVars, calcVars, program, bookVars, cur, sessOp, inp, plan, todo, sent, sessVars, exitPath >>

\* pro: the finally of __main__; both: the atexit hook
Cleanup(outcome) ==
  /\ pc \in {"main_finally", "atexit"}
  /\ \A s \in Sess : ~(InList(s) /\ isConn[s]) => outcome[s] = "ok"
  /\ cleanup_all_connections(outcome)
  /\ pc' = IF pc = "main_finally" THEN "atexit" ELSE "exited"
  /\ UNCHANGED << dataVars, calcVars, program, bookVars, cur, sessOp, inp, plan, todo, sent, connected,
                  nextOrderId, clientId, apiThread, connectCalls, safelyCalls,
                  established, exitPath >>

\* ------------------------------------------------------------- API thread
\* The session's operation has not returned yet.  Once it has, no code reads
\* the object's fields again (only active_connections still refers to it),
\* so the callbacks of such a session are left out.
Running(s) == s = cur /\ pc \notin {"menu", "main_finally", "atexit", "exited"}

\* nextValidId(orderId), delivered by the session's reader thread
nextValidId(s, orderId) ==
  /\ apiThread[s] /\ isConn[s]
  /\ Running(s)
  /\ sessOp[s] # "run_connection_test"
  /\ nextOrderId' = [nextOrderId EXCEPT ![s] = orderId]
  /\ UNCHANGED << dataVars, calcVars, program, bookVars, pc, cur, sessOp, inp, plan, todo, sent, isConn,
                  connected, clientId, apiThread, active_connections,
                  connectCalls, disconnectCalls, safelyCalls, established,
                  exitPath >>

Next ==
  \/ /\ pc = "menu"
     /\ \E o \in (IF program = "plain" THEN PlainOps ELSE ProOps) :
          \E a \in OrderInputs(o) : StartOperation(o, a)
  \/ /\ pc = "connect"
     /\ \E cid \in get_unique_client_id, ok \in BOOLEAN : Connect(cid, ok)
  \/ StartApiThread
  \/ CheckHandshake
  \/ /\ pc = "body"
     /\ \E r \in [1..ScanLen -> ReqIds] : Body(r)
  \/ \E ok \in BOOLEAN : Send(ok)
  \/ \E raises \in BOOLEAN : Compose(raises)
  \/ Compose2
  \/ ReportStatus
  \/ \E outcome \in DisconnectOutcomes : Finally(outcome)
  \/ Quit
  \/ /\ pc \in {"main_finally", "atexit"}
     /\ \E outcome \in [Sess -> DisconnectOutcomes] : Cleanup(outcome)
  \/ \E s \in Sess, id \in OrderIds : nextValidId(s, id)

Spec == Init /\ [][Next]_vars


\* ------------------------------------------- data requests and callbacks
\* One data request of a connected session and the callbacks the API thread
\* dispatches meanwhile.  The gateway is external: an event may carry any id
\* of EventIds, whether or not a request was issued under it.
callerVars == << pc, cur, sessOp, inp, plan, todo, sent, sessVars, exitPath >>

DataOps ==
  IF program = "pro" THEN {"get_live_price"}
  ELSE {"get_stock_info", "scan_weekly_gainers_asx"}

DataReqIds(o) ==
  CASE o = "get_live_price" -> ReqIds \cap EventIds
    [] o = "get_stock_info" -> {StockReqId}
    [] OTHER -> {ScanBaseReqId}

\* the operations that request historical bars
HistoryOps == {"get_live_price", "scan_weekly_gainers_asx"}

\* self.market_data.get(reqId, {}).get("symbol", "Unknown")
SymbolOf(id) ==
  IF market_data[id].present /\ market_data[id].symbol # ""
    THEN market_data[id].symbol ELSE "Unknown"

\* the request is made: the id is registered in the store, then the
\* req... calls go out (get_live_price: reqMktData and reqHistoricalData;
\* get_stock_info: reqMktData; the ASX scan: reqHistoricalData)
DataRequest(o, r) ==
  /\ dpc = "start"
  /\ o \in DataOps
  /\ r \in DataReqIds(o)
  /\ dop' = o
  /\ req' = r
  /\ IF o = "scan_weekly_gainers_asx"
       THEN /\ historical_data' = [historical_data EXCEPT ![r] =
                                     [present |-> TRUE, data |-> << >>]]
            /\ UNCHANGED market_data
       ELSE /\ market_data' = [market_data EXCEPT ![r] =
                                 [NoEntry EXCEPT !.present = TRUE, !.symbol = "AAPL"]]
            /\ UNCHANGED historical_data
  /\ dpc' = "waiting"
  /\ UNCHANGED << latest_prices, volatility_data, cancelled, ended, reEnded, faults, result,
                  calcVars, program, bookVars, callerVars >>

\* after the sleep: cancelMktData(req_id); the store keeps the id
DataCancel ==
  /\ dpc = "waiting"
  /\ dop \in {"get_live_price", "get_stock_info"}
  /\ cancelled' = TRUE
  /\ dpc' = IF dop = "get_live_price" THEN "read" ELSE "done"
  /\ UNCHANGED << dop, req, storeVars, ended, reEnded, faults, result, calcVars, program, bookVars,
                  callerVars >>

\* get_live_price: the returned dict, built with .get(..., 0) defaults
LivePrice ==
  [present |-> TRUE, outcome |-> "result",
   bid |-> IF latest_prices["AAPL"].present /\ latest_prices["AAPL"].bid # None
             THEN latest_prices["AAPL"].bid ELSE 0,
   atr |-> IF volatility_data["AAPL"].present
             THEN volatility_data["AAPL"].atr ELSE Zero,
   change |-> Zero, terminated |-> req \in ended]

\* the ASX scan: change_pct from the first and the last close when the list
\* holds two bars or more, else the symbol is passed over
WeeklyChange ==
  LET data == historical_data[req].data
  IN IF historical_data[req].present /\ Len(data) >= 2 /\ data[1].close > 0
       THEN [NoResult EXCEPT !.present = TRUE, !.outcome = "result",
               !.change = Ratio((data[Len(data)].close - data[1].close) * 100,
                                data[1].close),
               !.terminated = req \in ended]
       ELSE [NoResult EXCEPT !.present = TRUE, !.outcome = "skipped",
               !.terminated = req \in ended]

\* the caller reads the stores (get_live_price after the cancel, the scan
\* after its sleep)
DataRead ==
  /\ \/ dpc = "read"
     \/ dpc = "waiting" /\ dop = "scan_weekly_gainers_asx"
  /\ result' = IF dop = "get_live_price" THEN LivePrice ELSE WeeklyChange
  /\ dpc' = "done"
  /\ UNCHANGED << dop, req, storeVars, cancelled, ended, reEnded, faults, calcVars,
                  program, bookVars, callerVars >>

\* a callback raised KeyError
Fault(callback, id) ==
  faults' = faults \cup {[callback |-> callback, id |-> id, registered |-> id = req]}

\* variant: the closing price is filed under "last"
tickPrice_close_as_last(id, tickType, price) ==
  /\ IF program = "pro"
       THEN LET symbol == SymbolOf(id)
                created == [latest_prices EXCEPT ![symbol].present = TRUE]
                f == IF tickType = 9 THEN "last" ELSE PriceField(tickType)
            IN IF f = ""
                 THEN /\ latest_prices' = created
                      /\ UNCHANGED << market_data, faults >>
               ELSE IF market_data[id].present
                 THEN /\ market_data' = [market_data EXCEPT ![id][f] = price]
                      /\ latest_prices' = [created EXCEPT ![symbol][f] = price]
                      /\ UNCHANGED faults
               ELSE /\ latest_prices' = created
                    /\ Fault("tickPrice", id)
                    /\ UNCHANGED market_data
       ELSE LET f == IF tickType = 9 THEN "last" ELSE PriceField(tickType)
            IN /\ market_data' =
                    [market_data EXCEPT ![id] =
                       [@ EXCEPT !.present = TRUE,
                                 ![IF f # "" THEN f ELSE "other"] = price]]
               /\ UNCHANGED << latest_prices, faults >>
  /\ UNCHANGED << dpc, dop, req, historical_data, volatility_data, cancelled,
                  ended, reEnded, result, calcVars, program, bookVars, callerVars >>

\* tickPrice(reqId, tickType, price, attrib); the plain module stores every
\* tick type under its name, "other" stands for the names outside the six
tickPrice(id, tickType, price) ==
  /\ IF program = "pro"
       THEN LET symbol == SymbolOf(id)
                created == [latest_prices EXCEPT ![symbol].present = TRUE]
                f == PriceField(tickType)
            IN IF f = ""
                 THEN /\ latest_prices' = created
                      /\ UNCHANGED << market_data, faults >>
               ELSE IF market_data[id].present
                 THEN /\ market_data' = [market_data EXCEPT ![id][f] = price]
                      /\ latest_prices' = [created EXCEPT ![symbol][f] = price]
                      /\ UNCHANGED faults
               ELSE /\ latest_prices' = created
                    /\ Fault("tickPrice", id)
                    /\ UNCHANGED market_data
       ELSE LET f == PriceField(tickType)
            IN /\ market_data' =
                    [market_data EXCEPT ![id] =
                       [@ EXCEPT !.present = TRUE,
                                 ![IF f # "" THEN f ELSE "other"] = price]]
               /\ UNCHANGED << latest_prices, faults >>
  /\ UNCHANGED << dpc, dop, req, historical_data, volatility_data, cancelled,
                  ended, reEnded, result, calcVars, program, bookVars, callerVars >>

\* tickSize(reqId, tickType, size): the plain module only prints
tickSize(id, tickType, size) ==
  /\ IF program = "pro" /\ tickType = 5
       THEN IF market_data[id].present
              THEN /\ market_data' = [market_data EXCEPT ![id].volume = size]
                   /\ UNCHANGED faults
              ELSE /\ Fault("tickSize", id)
                   /\ UNCHANGED market_data
       ELSE UNCHANGED << market_data, faults >>
  /\ UNCHANGED << dpc, dop, req, latest_prices, historical_data, volatility_data,
                  cancelled, ended, reEnded, result, calcVars, program, bookVars, callerVars >>

\* the bars the gateway sends under one id: up to MaxBars for a requested
\* series, MaxStrayBars otherwise
BarLimit(id) == IF id = req /\ dop \in HistoryOps THEN MaxBars ELSE MaxStrayBars

\* variant: the newest bar is put in front of the list
historicalData_newest_first(id, bar) ==
  /\ historical_data' = [historical_data EXCEPT ![id] =
                           [present |-> TRUE, data |-> << bar >> \o @.data]]
  /\ UNCHANGED << dpc, dop, req, market_data, latest_prices, volatility_data,
                  cancelled, ended, reEnded, faults, result, calcVars, program, bookVars, callerVars >>

\* historicalData(reqId, bar)
historicalData(id, bar) ==
  /\ historical_data' = [historical_data EXCEPT ![id] =
                           [present |-> TRUE, data |-> Append(@.data, bar)]]
  /\ UNCHANGED << dpc, dop, req, market_data, latest_prices, volatility_data,
                  cancelled, ended, reEnded, faults, result, calcVars, program, bookVars, callerVars >>

\* variant: each end of series takes the oldest bar off the list
historicalDataEndShifting(id) ==
  /\ ended' = ended \cup {id}
  /\ reEnded' = (reEnded \/ id \in ended)
  /\ historical_data' = [historical_data EXCEPT ![id].data =
                           IF @ = << >> THEN @ ELSE Tail(@)]
  /\ IF program = "pro" /\ historical_data[id].present
          /\ Len(historical_data[id].data) >= AtrMinBars
       THEN volatility_data' = [volatility_data EXCEPT ![SymbolOf(id)] =
              [present |-> TRUE,
               atr |-> calculate_atr(historical_data[id].data, AtrPeriod)]]
       ELSE UNCHANGED volatility_data
  /\ UNCHANGED << dpc, dop, req, market_data, latest_prices,
                  cancelled, faults, result, calcVars, program, bookVars, callerVars >>

\* historicalDataEnd(reqId, start, end): the plain module only prints
historicalDataEnd(id) ==
  /\ ended' = ended \cup {id}
  /\ reEnded' = (reEnded \/ id \in ended)
  /\ IF program = "pro" /\ historical_data[id].present
          /\ Len(historical_data[id].data) >= AtrMinBars
       THEN volatility_data' = [volatility_data EXCEPT ![SymbolOf(id)] =
              [present |-> TRUE,
               atr |-> calculate_atr(historical_data[id].data, AtrPeriod)]]
       ELSE UNCHANGED volatility_data
  /\ UNCHANGED << dpc, dop, req, market_data, latest_prices, historical_data,
                  cancelled, faults, result, calcVars, program, bookVars, callerVars >>

\* a bar of the gateway: it sends none after the series' end
SeriesBar(id, bar) ==
  /\ id \notin ended
  /\ Len(historical_data[id].data) < BarLimit(id)
  /\ historicalData(id, bar)

DataNext ==
  \/ /\ dpc = "start"
     /\ \E o \in DataOps : \E r \in DataReqIds(o) : DataRequest(o, r)
  \/ DataCancel
  \/ DataRead
  \/ \E id \in EventIds, t \in PriceTickTypes, p \in Prices : tickPrice(id, t, p)
  \/ \E id \in EventIds, t \in SizeTickTypes, sz \in Sizes : tickSize(id, t, sz)
  \/ \E id \in EventIds : SeriesBar(id, DataBar)
  \/ \E id \in EventIds : historicalDataEnd(id)

DataSpec == Init /\ [][DataNext]_vars

\* the ticks of one market-data request: every tick type, two prices
MktDataOps == {"get_live_price", "get_stock_info"}

TickNext ==
  \/ /\ dpc = "start"
     /\ \E o \in DataOps \cap MktDataOps : \E r \in DataReqIds(o) : DataRequest(o, r)
  \/ /\ req # None
     /\ \E t \in AllPriceTickTypes, p \in TickPrices : tickPrice(req, t, p)

TickSpec == Init /\ [][TickNext]_vars

\* ------------------------------------------------- account and positions
\* The accountSummary and position callbacks, as the API thread dispatches
\* them while get_account_info waits.  A dict is kept as the set of its
\* entries; the fields that make up its key are named in each callback.
AccountNames == {"DU1", "DU2"}
Tags == {"NetLiquidation", "BuyingPower"}
TagValues == {100, 200}
PositionSymbols == {"AAPL", "BHP"}
PositionSizes == {0, 100, -50}

\* accountSummary(reqId, account, tag, value, currency)
\* plain: self.account_values[account][tag] = {...}
\* Pro:   self.account_values[tag] = {..., "account": account}
accountSummary(account, tag, value) ==
  /\ account_values' =
       { x \in account_values :
           IF program = "pro" THEN x.tag # tag
           ELSE x.account # account \/ x.tag # tag }
       \cup {[account |-> account, tag |-> tag, value |-> value]}
  /\ UNCHANGED << flowVars, positions, reported, open_orders, console, dataVars, calcVars, program, callerVars >>

\* position(account, contract, position, avgCost): self.positions[symbol] = {...};
\* the plain module only stores a position that is not 0
position(account, symbol, pos) ==
  /\ reported' = { x \in reported : x.symbol # symbol }
                   \cup {[account |-> account, symbol |-> symbol, position |-> pos]}
  /\ IF program = "pro" \/ pos # 0
       THEN positions' = { x \in positions : x.symbol # symbol }
                           \cup {[account |-> account, symbol |-> symbol, position |-> pos]}
       ELSE UNCHANGED positions
  /\ UNCHANGED << flowVars, account_values, open_orders, console, dataVars, calcVars, program, callerVars >>

AccountNext ==
  \/ \E a \in AccountNames, t \in Tags, v \in TagValues : accountSummary(a, t, v)
  \/ \E a \in AccountNames, sym \in PositionSymbols, q \in PositionSizes : position(a, sym, q)

AccountSpec == Init /\ [][AccountNext]_vars

\* ------------------------------------------------------------- the scans
\* The loop of a scan: one request per symbol, a fixed sleep, a read, the
\* next request.  The plain scans count their ids up from a base
\* (scan_weekly_gainers_asx: 5000 + i), scan_momentum_stocks calls
\* get_live_price, which draws its id.  The gateway sends bars only under an
\* id that was requested, and may send them after the caller has moved on.
ScanBars == { [high |-> 12, low |-> 10, close |-> 11], [high |-> 13, low |-> 11, close |-> 12] }

ScanOp == IF program = "pro" THEN "get_live_price" ELSE "scan_weekly_gainers_asx"

NextScanIds ==
  IF program = "pro" THEN DataReqIds("get_live_price")
  ELSE IF req = None THEN {ScanBaseReqId}
  ELSE {req + 1} \cap ScanIds

Requested(id) ==
  IF program = "pro" THEN market_data[id].present ELSE historical_data[id].present

\* the next iteration registers its id and sends its request
ScanRequest(r) ==
  /\ dpc \in {"start", "done"}
  /\ r \in NextScanIds
  /\ dop' = ScanOp
  /\ req' = r
  /\ IF program = "pro"
       THEN /\ market_data' = [market_data EXCEPT ![r] =
                                 [NoEntry EXCEPT !.present = TRUE, !.symbol = "AAPL"]]
            /\ UNCHANGED historical_data
       ELSE /\ historical_data' = [historical_data EXCEPT ![r] =
                                     [present |-> TRUE, data |-> << >>]]
            /\ UNCHANGED market_data
  /\ dpc' = "waiting"
  /\ UNCHANGED << latest_prices, volatility_data, cancelled, ended, reEnded, faults,
                  result, calcVars, program, bookVars, callerVars >>

\* a bar of one of the series requested so far
ScanBar(id, bar) ==
  /\ Requested(id)
  /\ Len(historical_data[id].data) < MaxScanBars
  /\ historicalData(id, bar)

ScanNext ==
  \/ \E r \in SeriesIds : ScanRequest(r)
  \/ DataCancel
  \/ DataRead
  \/ \E id \in SeriesIds, bar \in ScanBars : ScanBar(id, bar)

ScanSpec == Init /\ [][ScanNext]_vars

\* ------------------------------------------------------- gateway messages
\* TradingBot.error while a data request is pending.  The callback sorts the
\* code into a tier with its two lists and prints one line; console keeps
\* the tier of each line and whether it carried the id of the request the
\* caller was waiting for.
InfoCodes == {2104, 2106, 2107, 2108, 2119, 2158}
WarningCodes ==
  IF program = "pro" THEN {10268, 2102, 2103, 2110, 399} ELSE {10268, 2102, 2103, 2110}
\* the codes the gateway sends in the model: two informational ones, a
\* warning of both modules, 399 (a warning in the Pro module only) and
\* 200 (no security definition found)
GatewayCodes == {2104, 2158, 2102, 399, 200}
\* a message about the connection comes with reqId -1
ErrorIds == EventIds \cup {None}

Tier(errorCode) ==
  IF errorCode \in InfoCodes THEN "info"
  ELSE IF errorCode \in WarningCodes THEN "warning"
  ELSE "error"

Pending(id) == id # None /\ id = req /\ dpc = "waiting"

\* variant: a warning takes the request it names out of the store
error_dropping_request(reqId, errorCode) ==
  /\ console' = console \cup {[tier |-> Tier(errorCode), pending |-> Pending(reqId)]}
  /\ IF Tier(errorCode) = "warning" /\ reqId # None
       THEN market_data' = [market_data EXCEPT ![reqId] = NoEntry]
       ELSE UNCHANGED market_data
  /\ UNCHANGED << flowVars, account_values, positions, reported, open_orders, dpc, dop, req,
                  latest_prices, historical_data, volatility_data, cancelled, ended,
                  reEnded, faults, result, calcVars, program, callerVars >>

\* error(reqId, errorCode, errorString, advancedOrderRejectJson="")
error(reqId, errorCode) ==
  /\ console' = console \cup {[tier |-> Tier(errorCode), pending |-> Pending(reqId)]}
  /\ UNCHANGED << flowVars, account_values, positions, reported, open_orders, dataVars, calcVars,
                  program, callerVars >>

\* openOrder(orderId, contract, order, orderState): self.open_orders.append({...})
openOrder(orderId) ==
  /\ Len(open_orders) < MaxOpenOrders
  /\ open_orders' = Append(open_orders, orderId)
  /\ UNCHANGED << flowVars, account_values, positions, reported, console, dataVars, calcVars,
                  program, callerVars >>

ErrorNext ==
  \/ /\ dpc = "start"
     /\ \E o \in DataOps : \E r \in DataReqIds(o) : DataRequest(o, r)
  \/ DataCancel
  \/ DataRead
  \/ /\ req # None
     /\ \E p \in Prices : tickPrice(req, 1, p)
  \/ \E orderId \in OrderIds : openOrder(orderId)
  \/ \E id \in ErrorIds, code \in GatewayCodes : error(id, code)

ErrorSpec == Init /\ [][ErrorNext]_vars

\* --------------------------------------------------------- order builders
\* The plain module's builders with a test on an argument, called as
\* enhanced_order_placement calls them: the arguments are the operator's
\* replies as text, None standing for the empty reply and for a keyword left
\* out (both fail the tests "if limit_price" / "if trail_amount"), a number
\* for its digits ("0" passes the test).
BuilderTypes == {"1", "2", "5a", "5b"}
BuilderQuantities == {10, 20}
BuilderPrices == {None, 0, 50, 60}
BuilderTrails == {None, 0, 2, 5}

BuilderInputs ==
  UNION { { [NoInput EXCEPT !.action = a, !.quantity = q, !.otype = t,
                            !.entry = e, !.trail = tr] :
              a \in Actions, q \in BuilderQuantities,
              e \in (IF t = "2" THEN BuilderPrices ELSE {None}),
              tr \in (IF AsksTrail("enhanced_order_placement", t)
                        THEN BuilderTrails ELSE {None}) } :
          t \in BuilderTypes }

\* order = create_...(...), with the app.nextOrderId the gateway announced
BuildOrder(i, next_id) ==
  /\ program = "plain"
  /\ inp = NoInput
  /\ inp' = i
  /\ plan' = PlainPlan(i, next_id)
  /\ todo' = PlainPlacements(PlainPlan(i, next_id))
  /\ nextOrderId' = [nextOrderId EXCEPT ![1] = next_id]
  /\ UNCHANGED << pc, cur, sessOp, sent, isConn, connected, clientId, apiThread,
                  active_connections, connectCalls, disconnectCalls, safelyCalls,
                  established, exitPath, dataVars, calcVars, program, bookVars >>

\* app.placeOrder(app.nextOrderId, contract, order)
SubmitBuilt ==
  /\ inp # NoInput
  /\ todo # << >>
  /\ sent' = Append(sent, [kind |-> Head(todo).kind, id |-> nextOrderId[1] + Head(todo).id,
                           order |-> Head(todo).order, ok |-> TRUE])
  /\ todo' = Tail(todo)
  /\ UNCHANGED << pc, cur, sessOp, inp, plan, sessVars, exitPath, dataVars, calcVars,
                  program, bookVars >>

BuilderNext ==
  \/ \E i \in BuilderInputs, next_id \in OrderIds : BuildOrder(i, next_id)
  \/ SubmitBuilt

BuilderSpec == Init /\ [][BuilderNext]_vars

\* ---------------------------------------------------------- calculators
\* TradingBot.calculate_atr called on series of every shape
TestBars ==
  { [high |-> 10, low |-> 10, close |-> 10], [high |-> 13, low |-> 10, close |-> 11],
    [high |-> 12, low |-> 9, close |-> 12], [high |-> 11, low |-> 11, close |-> 11] }
Periods == 1..MaxPeriod

AddBar(bar) ==
  /\ Len(bars) < MaxAtrBars
  /\ bars' = Append(bars, bar)
  /\ ret' = NoRet
  /\ UNCHANGED << sizing, targets, dataVars, program, bookVars, callerVars >>

CallAtr(period) ==
  /\ ret' = [outcome |-> "atr", value |-> calculate_atr(bars, period),
             period |-> period]
  /\ UNCHANGED << bars, sizing, targets, dataVars, program, bookVars, callerVars >>

AtrNext ==
  \/ \E bar \in TestBars : AddBar(bar)
  \/ \E period \in Periods : CallAtr(period)

AtrSpec == Init /\ [][AtrNext]_vars

\* the figures the operator types into the position-size calculators
\* (whole currency units, risk in percent)
Accounts == {10000, 2500, 100}
RiskPcts == {1, 29, -1}
SizingEntries == {50, 60}
SizingStops == {49, 47, 21, 50}

\* int(x) of the quotient n / d, d > 0: the fraction is cut off towards zero
Trunc(n, d) == IF n >= 0 THEN n \div d ELSE -((-n) \div d)

\* plain module: position_size_calculator()
position_size_calculator(account_size, risk_percent, entry_price, stop_loss_price) ==
  LET price_diff == Abs(entry_price - stop_loss_price)
  IN IF price_diff > 0
       THEN [NoRet EXCEPT !.outcome = "shares",
               !.value = Ratio(Trunc(account_size * risk_percent, 100 * price_diff), 1)]
       ELSE [NoRet EXCEPT !.outcome = "invalid_input"]

\* Pro module: MomentumTrader.calculate_position_size(); risk_pct is asked inside
calculate_position_size(account_value, risk_pct, entry_price, stop_price) ==
  LET risk_per_share == Abs(entry_price - stop_price)
  IN IF risk_per_share = 0
       THEN [NoRet EXCEPT !.outcome = "ZeroDivisionError"]
       ELSE [NoRet EXCEPT !.outcome = "shares",
               !.value = Ratio(Trunc(account_value * risk_pct, 100 * risk_per_share), 1)]

CallPositionSize(account, risk, entry, stop) ==
  /\ sizing = NoSizing
  /\ sizing' = [calc |-> IF program = "pro" THEN "calculate_position_size"
                                            ELSE "position_size_calculator",
                account |-> account, risk |-> risk, entry |-> entry, stop |-> stop]
  /\ ret' = IF program = "pro"
              THEN calculate_position_size(account, risk, entry, stop)
              ELSE position_size_calculator(account, risk, entry, stop)
  /\ UNCHANGED << bars, targets, dataVars, program, bookVars, callerVars >>

SizeNext ==
  \E account \in Accounts, risk \in RiskPcts, entry \in SizingEntries, stop \in SizingStops :
    CallPositionSize(account, risk, entry, stop)

SizeSpec == Init /\ [][SizeNext]_vars

\* the R-multiple targets the Pro module prints
\* MomentumTrader.calculate_position_size: "for r in [1, 2, 3, 5]"
SizingRs == {1, 2, 3, 5}
\* MomentumTrader.place_smart_order, bracket branch: 1:1, 1:2 and 1:3
BracketRs == {1, 2, 3}
\* the price fetched by get_live_price, or typed in when it is 0
CurrentPrices == {40, 50, 60}
\* entry limit price of the bracket branch; 0 asks for a market entry
BracketEntries == {0, 50, 60}
\* stop prices as calculate_stop_loss returns them (choice 4: any price)
TargetStops == {49, 47, 21, 50, 55, 65}

\* calculate_position_size: target_price = entry_price + (risk_per_share * r)
sizing_targets(entry_price, stop_price) ==
  LET risk_per_share == Abs(entry_price - stop_price)
  IN [r \in SizingRs |-> entry_price + (risk_per_share * r)]

\* place_smart_order: current_price + risk * r, the risk measured from the
\* entry limit price when one was typed
bracket_targets(current_price, entry_price, stop_price) ==
  LET risk == Abs((IF entry_price > 0 THEN entry_price ELSE current_price) - stop_price)
  IN [r \in BracketRs |-> current_price + (risk * r)]

\* place_smart_order, size choice 2: the action was chosen, the stop comes
\* from calculate_stop_loss(current_price), calculate_position_size prints
\* the targets unless the division raised
SizingTargets(action, current_price, stop_price) ==
  /\ program = "pro"
  /\ targets = NoTargets
  /\ targets' = [kind |-> IF current_price = stop_price THEN "ZeroDivisionError" ELSE "sizing",
                 action |-> action, current |-> current_price,
                 entry |-> current_price, stop |-> stop_price,
                 prices |-> IF current_price = stop_price THEN << >>
                            ELSE sizing_targets(current_price, stop_price)]
  /\ UNCHANGED << bars, sizing, ret, dataVars, program, bookVars, callerVars >>

\* place_smart_order, order type 6
BracketTargets(action, current_price, entry_price, stop_price) ==
  /\ program = "pro"
  /\ targets = NoTargets
  /\ targets' = [kind |-> "bracket", action |-> action, current |-> current_price,
                 entry |-> IF entry_price > 0 THEN entry_price ELSE current_price,
                 stop |-> stop_price,
                 prices |-> bracket_targets(current_price, entry_price, stop_price)]
  /\ UNCHANGED << bars, sizing, ret, dataVars, program, bookVars, callerVars >>

TargetNext ==
  \/ \E action \in Actions, current \in CurrentPrices, stop \in TargetStops :
       SizingTargets(action, current, stop)
  \/ \E action \in Actions, current \in CurrentPrices, entry \in BracketEntries, stop \in TargetStops :
       BracketTargets(action, current, entry, stop)

TargetSpec == Init /\ [][TargetNext]_vars

\* ------------------------------------------- the session API driven directly
\* A caller that holds session objects and calls their two methods itself:
\* connect_safely once on a new object, disconnect_safely any number of times
\* after it (MaxSafelyCalls bounds the count).
ConnectSafely(s, cid, ok) ==
  /\ connectCalls[s] = 0
  /\ safelyCalls[s] = 0
  /\ connect_safely(s, cid, ok)
  /\ UNCHANGED << dataVars, calcVars, program, bookVars, pc, cur, sessOp, inp, plan, todo, sent, nextOrderId,
                  apiThread, disconnectCalls, safelyCalls, exitPath >>

DisconnectSafely(s, outcome) ==
  /\ safelyCalls[s] < MaxSafelyCalls
  /\ ~isConn[s] => outcome = "ok"
  /\ disconnect_safely(s, outcome)
  /\ UNCHANGED << dataVars, calcVars, program, bookVars, pc, cur, sessOp, inp, plan, todo, sent, nextOrderId,
                  clientId, apiThread, connectCalls, established, exitPath >>

SafelyNext ==
  \/ \E s \in Sess, cid \in get_unique_client_id, ok \in BOOLEAN :
       ConnectSafely(s, cid, ok)
  \/ \E s \in Sess, outcome \in DisconnectOutcomes : DisconnectSafely(s, outcome)

SafelySpec == Init /\ [][SafelyNext]_vars

\* ------------------------------------------------------------- properties
IsPlace(m) == m.kind = "placeOrder"

\* the placeOrder calls of the running operation, in call order
PlaceLog == SelectSeq(sent, IsPlace)

\* the running operation holds a complete bracket
HasBracket == Len(plan) = 3

\* the session's operation has returned, or the menu loop has left it behind
Ended(s) ==
  \/ s < cur
  \/ s = cur /\ exitPath[s] # "" /\ pc \in {"menu", "main_finally", "atexit", "exited"}

\* C1: in every bracket exactly one order has transmit=true, that order is
\* the last one handed to placeOrder, and both children carry as parentId the
\* id under which the root order is submitted.
C1_BracketLinkage ==
  HasBracket =>
    /\ Cardinality({k \in 1..3 : plan[k].transmit}) = 1
    /\ \A k \in 1..Len(PlaceLog) : PlaceLog[k].order.transmit => k = 3
    /\ (PlaceLog # << >> /\ PlaceLog[1].ok) =>
         /\ plan[2].parentId = PlaceLog[1].id
         /\ plan[3].parentId = PlaceLog[1].id

\* C2 as stated: the bracket is entry (caller's action, transmit=false), then
\* stop-loss (opposite action, transmit=false), then take-profit (opposite
\* action, transmit=true), and the nodes are submitted in that order.
C2_StopThenProfit ==
  HasBracket =>
    /\ plan[1].action = inp.action /\ ~plan[1].transmit
    /\ plan[2].orderType = "STP" /\ plan[2].action = Opposite(inp.action)
    /\ ~plan[2].transmit
    /\ plan[3].orderType = "LMT" /\ plan[3].action = Opposite(inp.action)
    /\ plan[3].transmit
    /\ \A k \in 1..Len(PlaceLog) : PlaceLog[k].order = plan[k]

\* C2 amended: the bracket is the entry (caller's action, transmit=false)
\* followed by the two protective children (one stop order, one limit order,
\* both with the opposite action), the second node transmit=false and the
\* third transmit=true; the Pro module puts the stop-loss second and the
\* take-profit third, the plain module the take-profit second and the
\* stop-loss third; the nodes are submitted in plan order.
C2_BracketShape ==
  HasBracket =>
    /\ plan[1].action = inp.action /\ ~plan[1].transmit
    /\ plan[2].orderType = (IF program = "pro" THEN "STP" ELSE "LMT")
    /\ plan[3].orderType = (IF program = "pro" THEN "LMT" ELSE "STP")
    /\ plan[2].action = Opposite(inp.action) /\ ~plan[2].transmit
    /\ plan[3].action = Opposite(inp.action) /\ plan[3].transmit
    /\ \A k \in 1..Len(PlaceLog) : PlaceLog[k].order = plan[k]

C2_Witness ==
  /\ HasBracket
  /\ Len(PlaceLog) = 3
  /\ \A k \in 1..3 : PlaceLog[k].ok

\* C3: when placeOrder raises, no further order of the plan is placed and
\* none is placed again; the transmit=true order of a plan is placed only
\* as its last node, after every other node was placed without failure.
C3_NoTransmitAfterFailure ==
  /\ \A k \in 1..Len(PlaceLog) : ~PlaceLog[k].ok => k = Len(PlaceLog)
  /\ \A j, k \in 1..Len(PlaceLog) : j < k => PlaceLog[j].order # PlaceLog[k].order
  /\ \A k \in 1..Len(PlaceLog) :
       PlaceLog[k].order.transmit =>
         /\ k = Len(plan)
         /\ \A j \in 1..(k - 1) : PlaceLog[j].ok /\ PlaceLog[j].order = plan[j]

C3_Witness ==
  /\ HasBracket
  /\ \E k \in 1..Len(PlaceLog) : ~PlaceLog[k].ok /\ ~PlaceLog[k].order.transmit
  /\ todo = << >>

\* C4: every single-leg order (market, limit, stop, stop-limit, trailing by
\* amount, trailing by percent) is a plan of one order with transmit=true
\* and no parent.
C4_SingleLeg ==
  (op \in OrderOps /\ plan # << >> /\ inp.otype # "6") =>
    /\ Len(plan) = 1
    /\ plan[1].transmit
    /\ plan[1].parentId = 0
    /\ \A k \in 1..Len(PlaceLog) : k = 1 /\ PlaceLog[k].order = plan[1]

C4_Witness ==
  /\ op \in OrderOps
  /\ inp.otype \in {"3", "5a", "5b"}
  /\ Len(plan) = 1
  /\ Len(PlaceLog) = 1 /\ PlaceLog[1].ok

\* C5: no request, placeOrder or cancel goes out on a session whose
\* nextOrderId is still unset.
C5_NoCallBeforeNextValidId ==
  sent # << >> => nextOrderId[cur] # None

C5_Witness ==
  /\ \E k \in 1..Len(sent) : sent[k].kind \in {"reqMktData", "reqHistoricalData"}
  /\ \E k \in 1..Len(sent) : sent[k].kind = "placeOrder"

\* C6: an operation whose connect_safely returned True ends, on every exit
\* path, with its session disconnected and out of active_connections.
C6_ReleasedOnEveryExit ==
  \A s \in Sess :
    (established[s] /\ Ended(s)) => (~isConn[s] /\ ~InList(s))

\* C7: after two or more disconnect_safely calls in a row the transport is
\* down, the session is not in active_connections, and the underlying
\* disconnect was invoked at most once.
C7_Idempotent ==
  \A s \in Sess :
    safelyCalls[s] >= 2 =>
      (~isConn[s] /\ ~InList(s) /\ disconnectCalls[s] <= 1)

\* C8: connect_safely makes exactly one connect attempt; when it fails the
\* session is not in active_connections and not marked connected.
C8_ConnectFailsFast ==
  \A s \in Sess :
    /\ connectCalls[s] <= 1
    /\ exitPath[s] = "connect_failed" =>
         /\ connectCalls[s] = 1
         /\ ~InList(s)
         /\ ~connected[s]
         /\ ~isConn[s]

C8_Witness ==
  \E s \in Sess : exitPath[s] = "connect_failed" /\ connectCalls[s] = 1

\* C9: two sessions connected at the same time hold different client ids.
C9_DistinctClientIds ==
  \A s, t \in Sess :
    (s # t /\ isConn[s] /\ isConn[t]) => clientId[s] # clientId[t]

\* C10: within one session the ids of the requests issued are strictly
\* increasing, so none is used twice.
RequestKinds ==
  {"reqMktData", "reqHistoricalData", "reqContractDetails", "reqAccountSummary"}

C10_FreshRequestIds ==
  \A j, k \in 1..Len(sent) :
    (j < k /\ sent[j].kind \in RequestKinds /\ sent[k].kind \in RequestKinds)
      => sent[j].id < sent[k].id


\* the API thread dispatches a tick / any event carrying the id
TickFor(id) ==
  \/ \E t \in PriceTickTypes, p \in Prices : tickPrice(id, t, p)
  \/ \E t \in SizeTickTypes, sz \in Sizes : tickSize(id, t, sz)

EventFor(id) ==
  \/ TickFor(id)
  \/ historicalData(id, DataBar)
  \/ historicalDataEnd(id)

\* C11: a tick-price, tick-size, bar or end-of-series event whose id no
\* request registered never raises in the callback.
C11_StrayEventNeverRaises ==
  \A f \in faults : f.registered

\* C12: an event whose id no request registered leaves market_data,
\* latest_prices, historical_data and volatility_data as they were.
C12_StrayEventLeavesStores ==
  [][\A id \in EventIds : (id # req /\ EventFor(id)) => UNCHANGED storeVars]_vars

\* C13: once cancelMktData(r) was called, no tick carrying r changes the
\* price snapshot or the record of the request.
C13_NoDispatchAfterCancel ==
  [][(cancelled /\ TickFor(req)) => UNCHANGED << market_data, latest_prices >>]_vars

\* C14: a historical request whose end of series did not arrive within the
\* wait ends with a Timeout outcome, not with a result, and its id is
\* taken out of the stores.
C14_TimeoutOutcome ==
  (dpc = "done" /\ dop \in HistoryOps /\ ~result.terminated) =>
    /\ result.outcome = "Timeout"
    /\ ~market_data[req].present
    /\ ~historical_data[req].present

\* C15: a further historicalDataEnd for an id whose series has ended leaves
\* the stored series and the stored ATR as the first one left them.
C15_DuplicateEndIdempotent ==
  [][\A id \in EventIds : (id \in ended /\ historicalDataEnd(id))
        => UNCHANGED << historical_data, volatility_data >>]_vars

C15_Witness ==
  /\ reEnded
  /\ req \in ended
  /\ volatility_data["AAPL"].present

\* C16: the caller computes its result from the series only after the
\* historicalDataEnd of the request was dispatched.
C16_ReadAfterEnd ==
  (result.present /\ result.outcome = "result") => result.terminated


\* values compared as numbers
RatEq(a, b) == a.num * b.den = b.num * a.den

\* the true range of bar i (i >= 1, bars counted from 0) of the series held
TrueRangeAt(i) ==
  Max(bars[i + 1].high - bars[i + 1].low,
      Max(Abs(bars[i + 1].high - bars[i].close), Abs(bars[i + 1].low - bars[i].close)))

RECURSIVE SumTrueRanges(_, _)
SumTrueRanges(lo, hi) ==
  IF lo > hi THEN 0 ELSE TrueRangeAt(hi) + SumTrueRanges(lo, hi - 1)

\* C17: calculate_atr is the sum of the last `period` true ranges over
\* `period` when that many exist, else the sum of all true ranges over their
\* count; with period+1 bars and one non-zero true range it is that true
\* range over period.
C17_AtrIsMeanTrueRange ==
  (ret.outcome = "atr" /\ Len(bars) >= 2) =>
    LET n == Len(bars) - 1
        p == ret.period
    IN /\ n >= p => RatEq(ret.value, Ratio(SumTrueRanges(n - p + 1, n), p))
       /\ n < p => RatEq(ret.value, Ratio(SumTrueRanges(1, n), n))
       /\ \A k \in 1..n :
            (n = p /\ \A i \in 1..n : i # k => TrueRangeAt(i) = 0)
              => RatEq(ret.value, Ratio(TrueRangeAt(k), p))

C17_Witness ==
  /\ ret.outcome = "atr"
  /\ ret.period = 2
  /\ Len(bars) = 3
  /\ TrueRangeAt(1) = 0
  /\ TrueRangeAt(2) > 0

\* C18: for 2 bars or more calculate_atr returns a non-negative number; for
\* fewer it returns a value no series of 2 bars or more can produce.
C18_AbsentBelowTwoBars ==
  ret.outcome = "atr" =>
    IF Len(bars) >= 2
      THEN ret.value.num >= 0 /\ ret.value.den > 0
      ELSE \A series \in [1..2 -> TestBars] :
             ~RatEq(ret.value, calculate_atr(series, ret.period))

\* C19: with entry # stop the position-size calculators give
\* floor(account * risk / 100 / |entry - stop|) shares; (10000, 1, 50, 49)
\* gives 100.
C19_SharesAreFloor ==
  (sizing # NoSizing /\ sizing.entry # sizing.stop) =>
    /\ ret.outcome = "shares"
    /\ ret.value = Ratio((sizing.account * sizing.risk)
                            \div (100 * Abs(sizing.entry - sizing.stop)), 1)

\* C20: with entry = stop every position-size calculator ends with the
\* invalid-input outcome: no share count and no division by zero.
C20_InvalidRisk ==
  (sizing # NoSizing /\ sizing.entry = sizing.stop) => ret.outcome = "invalid_input"

\* C21: every R-multiple target shown is direction-aware: entry + r * risk
\* for a BUY entry, entry - r * risk for a SELL entry, the risk being
\* |entry - stop|.
C21_DirectionAwareTargets ==
  \A r \in DOMAIN targets.prices :
    targets.prices[r] =
      IF targets.action = "BUY"
        THEN targets.entry + r * Abs(targets.entry - targets.stop)
        ELSE targets.entry - r * Abs(targets.entry - targets.stop)

\* the price snapshot of the instrument of the request: latest_prices[symbol]
\* in the Pro module, market_data[reqId] in the plain one
Snapshot(f) ==
  IF program = "pro" THEN latest_prices[SymbolOf(req)][f] ELSE market_data[req][f]

\* C22: a tick-price event for the registered request sets the field of its
\* tick type to its price and leaves every other field of the snapshot as it
\* was; a tick of a type outside the six leaves all of them as they were.
C22_LastWriteWinsPerField ==
  [][\A t \in AllPriceTickTypes, p \in TickPrices :
       (req # None /\ tickPrice(req, t, p)) =>
         \A f \in PriceFields :
           Snapshot(f)' = IF (t = 1 /\ f = "bid") \/ (t = 2 /\ f = "ask")
                             \/ (t = 4 /\ f = "last") \/ (t = 6 /\ f = "high")
                             \/ (t = 7 /\ f = "low") \/ (t = 9 /\ f = "close")
                            THEN p ELSE Snapshot(f)]_vars

\* ticks of several types arrived, one field was written twice or with the
\* second price, another holds the first price, a third none
C22_Witness ==
  /\ req # None
  /\ Snapshot("bid") = 11
  /\ Snapshot("close") = 10
  /\ Snapshot("last") = None
  /\ Snapshot("high") = 11

\* the entries held for one account under a tag, or for a symbol
ValuesOf(account, tag) == { x \in account_values : x.account = account /\ x.tag = tag }
PositionsOf(account, symbol) == { x \in positions : x.account = account /\ x.symbol = symbol }

\* C23: a report for one account leaves the entry another account holds
\* under the same tag, or for the same symbol, as it was.
C23_KeyedByAccount ==
  [][/\ \A a \in AccountNames, t \in Tags, v \in TagValues :
          accountSummary(a, t, v) =>
            \A b \in AccountNames \ {a} : ValuesOf(b, t)' = ValuesOf(b, t)
     /\ \A a \in AccountNames, sym \in PositionSymbols, q \in PositionSizes :
          position(a, sym, q) =>
            \A b \in AccountNames \ {a} : PositionsOf(b, sym)' = PositionsOf(b, sym)]_vars

\* C24: what positions holds for a symbol is the gateway's latest position
\* event for it; after a report of 0 no other quantity is shown.
C24_LatestPositionShown ==
  \A r \in reported :
    /\ \A x \in positions : x.symbol = r.symbol => x = r
    /\ r.position # 0 => r \in positions

\* C25: an error event of the informational or the warning tier leaves
\* nextOrderId, the request records, the series, the price snapshots, the
\* order list and the caller's position as they were, whatever id it names.
C25_InfoAndWarningChangeNothing ==
  [][\A id \in ErrorIds, code \in GatewayCodes :
       (Tier(code) \in {"info", "warning"} /\ error(id, code)) =>
         UNCHANGED << nextOrderId, market_data, latest_prices, historical_data,
                      volatility_data, open_orders, plan, todo, sent, dpc, dop,
                      req, result, cancelled >>]_vars

\* a warning named the pending request, which had data and went on to its result
C25_Witness ==
  /\ \E c \in console : c.tier = "warning" /\ c.pending
  /\ \E c \in console : c.tier = "info"
  /\ req # None /\ market_data[req].bid # None
  /\ open_orders # << >>
  /\ result.present

\* C26: an error of the error tier that names the pending request ends the
\* request with a GatewayError outcome.
C26_ErrorRoutedToRequest ==
  (result.present /\ \E c \in console : c.tier = "error" /\ c.pending)
    => result.outcome = "GatewayError"

\* C27: a trailing stop without a trail amount or percent above 0, and a
\* limit order without a limit price, are rejected: no such order is built,
\* and none is handed to placeOrder.
C27_InvalidPlanRejected ==
  \A k \in DOMAIN plan :
    /\ plan[k].orderType = "TRAIL" => (plan[k].auxPrice > 0 \/ plan[k].trailingPercent > 0)
    /\ plan[k].orderType = "LMT" => plan[k].lmtPrice # UNSET_DOUBLE

\* C28: when the end of series comes for the registered request of the Pro
\* module and the series holds 2 bars or more, the ATR of that series is
\* recorded as the volatility of the request's symbol.
C28_AtrRecordedAtEnd ==
  [][\A id \in EventIds :
       (/\ program = "pro" /\ id = req /\ market_data[id].present
        /\ Len(historical_data[id].data) >= 2
        /\ historicalDataEnd(id))
         => volatility_data'[SymbolOf(id)] =
              [present |-> TRUE, atr |-> calculate_atr(historical_data[id].data, AtrPeriod)]]_vars

\* C30: a step of the caller thread leaves the session's stores as they were.
C30_StoresWrittenByCallbacksOnly ==
  [][dpc' # dpc => UNCHANGED << market_data, latest_prices, historical_data,
                               open_orders, positions, account_values >>]_vars

\* C29: the list under an id only grows, by the bar of an event tagged with
\* that id, at its end: a bar event appends its bar to the list of its own
\* id and leaves every other list alone, and no other step changes a list.
C29_SeriesInArrivalOrder ==
  [][/\ \A id \in SeriesIds, bar \in ScanBars :
          historicalData(id, bar) =>
            /\ historical_data'[id].data = Append(historical_data[id].data, bar)
            /\ \A other \in SeriesIds \ {id} :
                 historical_data'[other].data = historical_data[other].data
     /\ \A id \in SeriesIds :
          \/ historical_data'[id].data = historical_data[id].data
          \/ \E bar \in ScanBars :
               historical_data'[id].data = Append(historical_data[id].data, bar)]_vars

\* the caller read the first series when it held less than two bars, has
\* issued the next request since, and the first series went on to receive
\* bars, which are in its own list in their order of arrival
C29_Witness ==
  /\ program = "plain"
  /\ req = ScanBaseReqId + 1
  /\ dpc = "waiting"
  /\ result.outcome = "skipped"
  /\ Len(historical_data[ScanBaseReqId].data) = 2
  /\ historical_data[ScanBaseReqId].data[1] # historical_data[ScanBaseReqId].data[2]
  /\ Len(historical_data[req].data) = 1

\* C32: within one session the order ids handed to placeOrder are strictly
\* increasing, so none is handed over twice.
C32_IncreasingOrderIds ==
  \A j, k \in 1..Len(PlaceLog) : j < k => PlaceLog[j].id < PlaceLog[k].id

\* C35: in MomentumTrader's bracket submission both children carry as
\* parentId the id under which the root order is handed to placeOrder,
\* wherever nextValidId lands between the builder and the placeOrder calls.
C35_ParentIdIsRootId ==
  (program = "pro" /\ Len(plan) >= 2 /\ PlaceLog # << >>) =>
    \A k \in 2..Len(plan) : plan[k].parentId = PlaceLog[1].id

\* the stop-type orders: stop-loss, stop-limit, trailing stop
StopTypes == {"STP", "STP LMT", "TRAIL"}

\* C39: every stop-type order an order flow builds from the entered action
\* carries the opposite action.
C39_ProtectiveStopsOppose ==
  \A k \in 1..Len(plan) :
    plan[k].orderType \in StopTypes => plan[k].action = Opposite(inp.action)

\* C34: once cleanup_all_connections has run, no session of
\* active_connections is still connected, whatever its disconnect calls
\* did, and the plain module's list is empty.
C34_CleanupDisconnectsAll ==
  pc = "exited" =>
    /\ \A s \in Sess : InList(s) => ~isConn[s]
    /\ program = "plain" => active_connections = << >>

\* ------------------------------------------------- the caller's progress
\* The operations that place no order, with the caller thread kept going:
\* every wait of an operation is a time.sleep of fixed length and every
\* EClient call returns or raises, so a step of the running operation that
\* can be taken is taken.  The menu waits for the operator and the API
\* thread for the gateway: neither is bound to act.
CallerOps == (IF program = "plain" THEN PlainOps ELSE ProOps) \ OrderOps

OperationStep ==
  \/ /\ pc = "connect"
     /\ \E cid \in get_unique_client_id, ok \in BOOLEAN : Connect(cid, ok)
  \/ StartApiThread
  \/ CheckHandshake
  \/ /\ pc = "body"
     /\ \E r \in [1..ScanLen -> ReqIds] : Body(r)
  \/ \E ok \in BOOLEAN : Send(ok)
  \/ \E outcome \in DisconnectOutcomes : Finally(outcome)

TermNext ==
  \/ /\ pc = "menu"
     /\ \E o \in CallerOps : StartOperation(o, NoInput)
  \/ OperationStep
  \/ Quit
  \/ /\ pc \in {"main_finally", "atexit"}
     /\ \E outcome \in [Sess -> DisconnectOutcomes] : Cleanup(outcome)
  \/ \E s \in Sess, id \in OrderIds : nextValidId(s, id)

TermSpec == Init /\ [][TermNext]_vars /\ WF_vars(OperationStep)

\* the operation of session s has returned
Returned(s) == cur = s /\ exitPath[s] # "" /\ pc \in {"menu", "main_finally"}

\* C40: every operation that starts returns, whatever the gateway sends or
\* fails to send, and its session is disconnected when it returns.
C40_ReturnsDisconnected ==
  \A s \in Sess : (cur = s /\ pc = "connect") ~> (Returned(s) /\ ~isConn[s])

\* ------------------------------------------- the read of get_live_price
\* get_live_price builds its result from the live dict of the symbol, one
\* .get at a time, while the API thread may still dispatch the ticks that
\* were on their way when cancelMktData went out.
\* the order of evaluation of the returned dict's entries
ReadFields == << "bid", "ask", "last", "high", "low", "close", "spread" >>
\* the tick types of the quote: BID and ASK
QuoteTickTypes == {1, 2}

\* prices = self.app.latest_prices.get(symbol, {}): the symbol's own dict,
\* or an empty one that no callback will ever write to
BindPrices ==
  /\ dpc = "read"
  /\ price_data.at = 0
  /\ price_data' = [NoPriceData EXCEPT !.at = 1,
                                       !.live = latest_prices["AAPL"].present]
  /\ UNCHANGED << order_statuses, shown, confirms, asked, account_values, positions,
                  reported, open_orders, console, dataVars, calcVars, program, callerVars >>

\* prices.get(f, 0) at the time of the call
PriceGet(f) ==
  IF price_data.live /\ latest_prices["AAPL"][f] # None
    THEN latest_prices["AAPL"][f] ELSE 0

\* the next entry of the returned dict; the spread is evaluated from the
\* dict again; after the last entry the function returns
ReadField ==
  /\ dpc = "read"
  /\ price_data.at \in 1..Len(ReadFields)
  /\ LET f == ReadFields[price_data.at]
         spread == IF PriceGet("ask") # 0 /\ PriceGet("bid") # 0
                     THEN PriceGet("ask") - PriceGet("bid") ELSE 0
     IN /\ price_data' = [price_data EXCEPT
                            !.at = @ + 1,
                            ![f] = IF f = "spread" THEN spread ELSE PriceGet(f)]
        /\ IF f = "spread"
             THEN /\ dpc' = "done"
                  /\ result' = [LivePrice EXCEPT !.bid = price_data.bid]
             ELSE UNCHANGED << dpc, result >>
  /\ UNCHANGED << order_statuses, shown, confirms, asked, account_values, positions,
                  reported, open_orders, console, dop, req, storeVars, cancelled,
                  ended, reEnded, faults, calcVars, program, callerVars >>

ReadNext ==
  \/ /\ dpc = "start"
     /\ \E r \in DataReqIds("get_live_price") : DataRequest("get_live_price", r)
  \/ DataCancel
  \/ BindPrices
  \/ ReadField
  \/ /\ req # None
     /\ \E t \in QuoteTickTypes, p \in TickPrices : tickPrice(req, t, p)

ReadSpec == Init /\ [][ReadNext]_vars

\* C31: the record get_live_price returns is one state of the snapshot:
\* its spread is the difference of the ask and the bid it reports (0 when
\* one of the two is missing).
C31_ConsistentRecord ==
  price_data.at > Len(ReadFields) =>
    price_data.spread =
      (IF price_data.ask # 0 /\ price_data.bid # 0
         THEN price_data.ask - price_data.bid ELSE 0)

\* --------------------------------------------------- the order's status
\* place_smart_order with a single order, and the orderStatus events the API
\* thread dispatches meanwhile.  The gateway reports on the order just
\* placed and may report on the one before it (an order of an earlier run
\* under the same client id).
StatusIds == {4, 5}
Statuses == {"Submitted", "Filled"}
StatusOrderTypes == {"1", "2"}
StatusInputs == { a \in OrderInputs("place_smart_order") : a.otype \in StatusOrderTypes }

\* orderStatus(orderId, status, filled, remaining, avgFillPrice, ...):
\* self.order_statuses[orderId] = {...}; of the entry the status is kept
orderStatus(s, orderId, status) ==
  /\ apiThread[s] /\ isConn[s]
  /\ Running(s)
  /\ order_statuses' = { x \in order_statuses : x.orderId # orderId }
                         \cup {[orderId |-> orderId, status |-> status]}
  /\ UNCHANGED << dataVars, calcVars, program, account_values, positions, reported,
                  open_orders, console, price_data, shown, confirms, asked, callerVars >>

StatusNext ==
  \/ /\ pc = "menu"
     /\ \E a \in StatusInputs : StartOperation("place_smart_order", a)
  \/ /\ pc = "connect"
     /\ \E cid \in get_unique_client_id, ok \in BOOLEAN : Connect(cid, ok)
  \/ StartApiThread
  \/ CheckHandshake
  \/ /\ pc = "body"
     /\ \E r \in [1..ScanLen -> ReqIds] : Body(r)
  \/ \E ok \in BOOLEAN : Send(ok)
  \/ \E raises \in BOOLEAN : Compose(raises)
  \/ ReportStatus
  \/ \E outcome \in DisconnectOutcomes : Finally(outcome)
  \/ \E s \in Sess, id \in OrderIds : nextValidId(s, id)
  \/ \E s \in Sess, id \in StatusIds, st \in Statuses : orderStatus(s, id, st)

StatusSpec == Init /\ [][StatusNext]_vars

\* C33: the status place_smart_order reports for its single order is the
\* status the gateway last sent for the id the order was placed under,
\* whenever one had arrived by then.
C33_ReportsPlacedOrder ==
  [][(pc = "report" /\ pc' = "finally") =>
       \A x \in order_statuses :
         x.orderId = PlaceLog[1].id =>
           shown' = [found |-> TRUE, orderId |-> x.orderId, status |-> x.status]]_vars

\* --------------------------------------------- the momentum scan's ATR
\* scan_momentum_stocks calls get_live_price for one symbol after the
\* other on one session; each call draws its request id and asks for the
\* symbol's daily bars under it.  The gateway sends, under an id, bars of
\* the symbol requested under that id, until it has sent the end.  The
\* draws that hit an id whose series is still open are left out (the
\* gateway turns such a request down).
Stocks == << "AAPL", "MSFT" >>
MaxVolBars == 14

\* the daily bar the gateway reports for a symbol
BarOf(symbol) ==
  IF symbol = "AAPL" THEN DataBar ELSE [high |-> 24, low |-> 20, close |-> 22]

\* get_live_price(symbol) up to its sleep, for the next symbol of the list
ScanPrice(r) ==
  /\ program = "pro"
  /\ dpc \in {"start", "done"}
  /\ Len(asked) < Len(Stocks)
  /\ r \in DataReqIds("get_live_price")
  /\ market_data[r].present => r \in ended
  /\ asked' = Append(asked, Stocks[Len(asked) + 1])
  /\ market_data' = [market_data EXCEPT ![r] =
                       [NoEntry EXCEPT !.present = TRUE,
                                       !.symbol = Stocks[Len(asked) + 1]]]
  /\ dop' = "get_live_price"
  /\ req' = r
  /\ dpc' = "waiting"
  /\ cancelled' = FALSE
  /\ ended' = ended \ {r}
  /\ UNCHANGED << latest_prices, historical_data, volatility_data, reEnded, faults,
                  result, price_data, order_statuses, shown, confirms, account_values,
                  positions, reported, open_orders, console, calcVars, program,
                  callerVars >>

\* get_live_price after the cancel: the dict it returns for its symbol
ScanRead ==
  /\ dpc = "read"
  /\ asked # << >>
  /\ LET symbol == asked[Len(asked)]
     IN result' = [present |-> TRUE, outcome |-> "result",
                   bid |-> IF latest_prices[symbol].present /\ latest_prices[symbol].bid # None
                             THEN latest_prices[symbol].bid ELSE 0,
                   atr |-> IF volatility_data[symbol].present
                             THEN volatility_data[symbol].atr ELSE Zero,
                   change |-> Zero, terminated |-> req \in ended]
  /\ dpc' = "done"
  /\ UNCHANGED << dop, req, storeVars, cancelled, ended, reEnded, faults, calcVars,
                  program, bookVars, callerVars >>

\* a bar of the gateway for a request that is open
VolBar(id) ==
  /\ market_data[id].present
  /\ id \notin ended
  /\ Len(historical_data[id].data) < MaxVolBars
  /\ historicalData(id, BarOf(market_data[id].symbol))

\* the end of a series that is open
VolEnd(id) ==
  /\ market_data[id].present
  /\ id \notin ended
  /\ historicalDataEnd(id)

VolNext ==
  \/ \E r \in ReqIds : ScanPrice(r)
  \/ DataCancel
  \/ ScanRead
  \/ \E id \in EventIds : VolBar(id)
  \/ \E id \in EventIds : VolEnd(id)

VolSpec == Init /\ [][VolNext]_vars

\* C36: whenever the end of a series stores an ATR for a symbol, every bar
\* it is computed from is a bar of that symbol's request.
C36_AtrFromOwnBars ==
  [][\A id \in EventIds :
       (id \notin ended /\ id \in ended'
          /\ volatility_data'[SymbolOf(id)] # volatility_data[SymbolOf(id)]) =>
         \A i \in 1..Len(historical_data[id].data) :
           historical_data[id].data[i] = BarOf(SymbolOf(id))]_vars

\* --------------------------------------------- paper and live orders
\* paper_trade_order and place_live_order of the plain module: one order of
\* type MKT or LMT, the live one behind two typed confirmations.
ConfirmAnswers == {"YES", "yes"}
FinalAnswers == {"PLACE ORDER", "place order"}
SimpleOrderTypes == {"MKT", "LMT"}
SimpleInputs ==
  { [NoInput EXCEPT !.action = a, !.quantity = q, !.otype = t, !.entry = e] :
      a \in Actions, q \in Quantities, t \in SimpleOrderTypes, e \in {50} }

\* variant: the first confirmation is enough
LiveConfirmedOnce(confirm, final_confirm) == confirm = "YES"

\* confirm != "YES": return; final_confirm != "PLACE ORDER": return
LiveConfirmed(confirm, final_confirm) ==
  confirm = "YES" /\ final_confirm = "PLACE ORDER"

\* The operation is called and asks its questions; place_live_order returns
\* unless both confirmations are given (the second question is only asked
\* after the first was answered with YES), else app = TradingBot().
StartSimpleOrder(o, confirm, final_confirm, answers) ==
  /\ pc = "menu"
  /\ program = "plain"
  /\ cur < MaxSessions
  /\ o \in SimpleOrderOps
  /\ answers \in SimpleInputs
  /\ confirms' = IF o = "place_live_order"
                   THEN [confirm |-> confirm,
                         final_confirm |-> IF confirm = "YES" THEN final_confirm ELSE ""]
                   ELSE NoConfirms
  /\ IF o = "place_live_order" /\ ~LiveConfirmed(confirm, final_confirm)
       THEN UNCHANGED << dataVars, calcVars, program, account_values, positions,
                         reported, open_orders, console, price_data, order_statuses,
                         shown, asked, callerVars >>
       ELSE NewSession(o, answers)

\* The try body once the handshake test passed.  paper_trade_order builds
\* its order and hands it to placeOrder under app.nextOrderId;
\* place_live_order reads the names exchange and currency, which it never
\* binds (they are locals of paper_trade_order): NameError, caught by the
\* except branch, before the order is built.
SimpleOrderBody ==
  /\ pc = "compose"
  /\ op \in SimpleOrderOps
  /\ IF op = "place_live_order"
       THEN /\ pc' = RaiseTarget(op)
            /\ exitPath' = [exitPath EXCEPT ![cur] = "exception"]
            /\ UNCHANGED << plan, todo >>
       ELSE LET order == create_clean_order(inp.action, inp.quantity, inp.otype, inp.entry)
            IN /\ plan' = << order >>
               /\ todo' = PlainPlacements(<< order >>)
               /\ pc' = "place"
               /\ UNCHANGED exitPath
  /\ UNCHANGED << dataVars, calcVars, program, bookVars, cur, sessOp, inp, sent, sessVars >>

LiveNext ==
  \/ \E o \in SimpleOrderOps, c \in ConfirmAnswers, f \in FinalAnswers, a \in SimpleInputs : StartSimpleOrder(o, c, f, a)
  \/ /\ pc = "connect"
     /\ \E cid \in get_unique_client_id, ok \in BOOLEAN : Connect(cid, ok)
  \/ StartApiThread
  \/ CheckHandshake
  \/ SimpleOrderBody
  \/ \E ok \in BOOLEAN : Send(ok)
  \/ \E outcome \in DisconnectOutcomes : Finally(outcome)
  \/ \E s \in Sess, id \in OrderIds : nextValidId(s, id)

LiveSpec == Init /\ [][LiveNext]_vars

BothConfirmed == [confirm |-> "YES", final_confirm |-> "PLACE ORDER"]

\* C37: place_live_order makes no connect attempt and hands no order to
\* placeOrder unless the operator typed exactly YES at the first
\* confirmation and exactly PLACE ORDER at the second.
C37_NothingWithoutConfirmations ==
  [][(op' = "place_live_order"
        /\ (connectCalls'[cur'] > connectCalls[cur'] \/ Len(sent') > Len(sent)))
       => confirms' = BothConfirmed]_vars

\* a confirmed live order connected and returned; the next call was turned
\* down at the second confirmation and opened nothing
C37_Witness ==
  /\ pc = "menu"
  /\ cur = 1
  /\ sessOp[1] = "place_live_order"
  /\ connectCalls[1] = 1
  /\ confirms = [confirm |-> "YES", final_confirm |-> "place order"]

\* C38: with both confirmations given, the connection made and nextValidId
\* received, place_live_order has handed exactly one order to placeOrder,
\* with the entered action, quantity and order type, when it disconnects.
C38_OneOrderBeforeDisconnect ==
  (op = "place_live_order" /\ pc = "finally"
     /\ exitPath[cur] \notin {"connect_failed", "no_handshake"}) =>
    /\ Len(PlaceLog) = 1
    /\ PlaceLog[1].order.action = inp.action
    /\ PlaceLog[1].order.totalQuantity = inp.quantity
    /\ PlaceLog[1].order.orderType = inp.otype

====
